---- MODULE Spec2Model ----
(***************************************************************************)
(* WardScry daemon (src/wardscry/daemon/wardscryd.py) with the store       *)
(* operations of src/wardscry/core.py and src/wardscry/db.py.              *)
(*                                                                         *)
(* Time is counted in quarter seconds: every window of the program is a    *)
(* multiple of 0.25s (0.75s = 3, 1.0s = 4, 1.25s = 5, 2.0s = 8, 3.0s = 12).*)
(* clock is time.time(); it starts at Epoch, far from 0.0.                 *)
(*                                                                         *)
(* Three threads run the daemon: the main thread (maintenance loop), the   *)
(* watchdog observer thread (on_created .. on_moved) and the               *)
(* OpenAccessWatcher thread.  Each step below is one access to shared      *)
(* state (a locked section, a store statement, a clock reading).           *)
(***************************************************************************)
EXTENDS Integers, Sequences, FiniteSets, TLC

\* ---------------------------------------------------------------- bounds

\* time.time() when the daemon starts, in quarter seconds.
Epoch == 8

\* How long a run is followed, in quarter seconds.
Horizon == 17

\* Classified hits (buffered, debounced or let through) in one run.
MaxHits == 5

\* Rows of the events table in one run.
MaxEvents == 3

\* Management-console operations (add, delete, reset) in one run.
MaxAdmin == 2

\* Quarter seconds a watcher thread may be held up between reading the
\* clock and its next step, in the scenarios that keep a cadence.
MaxStall == 1

\* The same two bounds for the scenarios that need no maintenance loop.
ShortHorizon == 4

FewHits == 3

\* The horizon of the scenarios that follow one decoy through two ticks of
\* the maintenance loop.
LifeHorizon == 8

\* ------------------------------------------------------ program constants

MOD_QUIET_SECONDS == 5

MOD_MAX_WINDOW_SECONDS == 12

TOKEN_REFRESH_SECONDS == 8

\* time.sleep(1.0) of the maintenance loop.
TICK_SLEEP == 4

\* _debounced's default window (0.75s).
DEBOUNCE_WINDOW == 3

\* The window OpenAccessWatcher.run passes for "opened" (1.0s).
OPENED_WINDOW == 4

\* ------------------------------------------------------------ the world

Ids == {1, 2, 3}

Paths == {"/a/x", "/a/y", "/b/z"}

\* A second spelling of /a/x that Path.resolve() brings back to it.
RawPaths == Paths \cup {"/a/../a/x"}

Dirs == {"/a", "/b"}

Sensitivities == {"low", "medium", "high"}

Statuses == {"ok", "missing", "triggered"}

\* TokenEventHandler._lock, _map_lock and _watch_lock, and
\* OpenAccessWatcher._lock.
Locks == {"burst", "map", "watch", "open"}

Threads == {"main", "obs", "opn"}

EventTypes == {"created", "modified", "deleted", "opened", "renamed", "note"}

DebouncedTypes == {"deleted", "renamed", "opened"}

\* An access watcher that debounces its opens under the key of deletions.
OpenedKind_Deleted == "deleted"

\* The kind OpenAccessWatcher.run debounces and records.
OpenedKind == "opened"

\* str(Path(p).expanduser().resolve())
Resolve(p) == IF p = "/a/../a/x" THEN "/a/x" ELSE p

\* Path(p).parent of a resolved path
Parent(p) == IF p = "/b/z" THEN "/b" ELSE "/a"

\* now_iso_utc(): UTC at second precision.
now_iso_utc(t) == t \div 4

VARIABLES
    clock,          \* time.time()
    db_tokens,      \* the tokens table: id -> row
    db_seq,         \* the last id AUTOINCREMENT gave out
    db_events,      \* the events table, in insertion order
    siem,           \* the lines of the JSONL alert stream
    fault,          \* which statement of the next write_event fails
    token_map,      \* TokenEventHandler.token_map: path -> (id, sens)
    watched_dirs,   \* TokenEventHandler.watched_dirs
    obs_sched,      \* observer.schedule calls made per directory
    dir_to_wd,      \* OpenAccessWatcher.dir_to_wd (its watched directories)
    last_seen,      \* TokenEventHandler._last_seen
    mod_bursts,     \* TokenEventHandler._mod_bursts, in insertion order
    main,           \* the main thread: pc and locals of main()
    obs,            \* the observer thread: pc and locals of the callback
    opn,            \* the OpenAccessWatcher thread: pc and locals of run()
    out,            \* the "Token refresh" lines printed
    hist,           \* history: every classified hit, in order
    admin,          \* history: management-console operations done
    locks,          \* which thread holds each threading.Lock
    stops,          \* the watchers told to stop, in the order they were told
    gone,           \* the directories that are missing or unreadable
    scope           \* how far the run is followed: its horizon and its hits

storeVars == <<db_tokens, db_seq, db_events, siem, fault>>

watchVars == <<watched_dirs, obs_sched, dir_to_wd>>

coalVars == <<last_seen, mod_bursts>>

histVars == <<out, hist, admin, scope>>

syncVars == <<locks, stops, gone>>

vars == <<clock, storeVars, token_map, watchVars, coalVars, main, obs, opn,
          histVars, syncVars>>

\* ------------------------------------------------------------- the store

NoRow == [live |-> FALSE, path |-> "", sensitivity |-> "", status |-> "",
          last_event_at |-> 0]

Row(p, s) == [live |-> TRUE, path |-> p, sensitivity |-> s, status |-> "ok",
              last_event_at |-> 0]

NoTok == [id |-> 0, sens |-> ""]

\* load_tokens(): { resolved path: (id, sensitivity) } of every row.
load_tokens(tokens) ==
    [p \in Paths |->
        IF \E i \in Ids : tokens[i].live /\ Resolve(tokens[i].path) = p
        THEN LET i == CHOOSE i \in Ids :
                          tokens[i].live /\ Resolve(tokens[i].path) = p
             IN  [id |-> i, sens |-> tokens[i].sensitivity]
        ELSE NoTok]

\* A severity label that is the sensitivity as the store holds it.
SEV_Raw(sens) == sens

\* SEV: sensitivity -> severity label, "low" for anything else.
SEV(sens) == IF sens \in Sensitivities THEN sens ELSE "low"

\* SEV_NUM.get(label, 3)
SEV_NUM(label) ==
    CASE label = "low" -> 3
      [] label = "medium" -> 7
      [] label = "high" -> 12
      [] OTHER -> 3

\* A status rule whose last branch puts the token back to 'ok'.
StatusAfter_OtherOk(status, event_type) ==
    IF event_type = "deleted" THEN "missing"
    ELSE IF event_type \in {"modified", "renamed", "opened"} THEN "triggered"
    ELSE "ok"

\* A status rule that leaves 'opened' out of the second branch.
StatusAfter_OpenedKeeps(status, event_type) ==
    IF event_type = "deleted" THEN "missing"
    ELSE IF event_type \in {"modified", "renamed"} THEN "triggered"
    ELSE status

\* A status rule that takes an open of the decoy as its return.
StatusAfter_OpenedOk(status, event_type) ==
    IF event_type = "deleted" THEN "missing"
    ELSE IF event_type \in {"modified", "renamed"} THEN "triggered"
    ELSE IF event_type = "opened" THEN "ok"
    ELSE status

\* The status the UPDATE of write_event leaves: 'missing' for deleted,
\* 'triggered' for modified, renamed and opened, the old one otherwise.
StatusAfter(status, event_type) ==
    IF event_type = "deleted" THEN "missing"
    ELSE IF event_type \in {"modified", "renamed", "opened"} THEN "triggered"
    ELSE status

\* The three UPDATE statements of write_event, on the row of token_id (an
\* UPDATE of a row that is gone changes nothing).
UpdateStatus(tokens, token_id, event_type, ts) ==
    IF tokens[token_id].live
    THEN [tokens EXCEPT ![token_id].status = StatusAfter(@, event_type),
                        ![token_id].last_event_at = ts]
    ELSE tokens

\* The text of an alert: what happened, to which path, and for a rename
\* the destination, for a burst its count and its duration.
Details(what, path, to, count, dur) ==
    [what |-> what, path |-> path, to |-> to, count |-> count, dur |-> dur]

EventRow(token_id, ts, event_type, severity, details) ==
    [token_id |-> token_id, ts |-> ts, event_type |-> event_type,
     severity |-> severity, details |-> details]

\* The JSON object write_event builds.
SiemEvent(token_id, ts, event_type, severity, details, token_path, sens) ==
    [timestamp |-> ts, action |-> event_type, severity |-> SEV_NUM(severity),
     level |-> severity, path |-> token_path, token_id |-> token_id,
     sensitivity |-> sens, details |-> details]

\* write_event were emit_jsonl to let its exception out.
Raises_AnyFault == fault # "none"

\* A statement of write_event that raises: the INSERT or the UPDATE
\* (exec_sql has no handler).  A failure in emit_jsonl is caught there.
Raises == fault \in {"insert", "update"}

\* A write_event that appends to the alert stream first: the line is
\* written whatever becomes of the INSERT and the UPDATE.
write_event_EmitFirst(token_id, event_type, severity, details, token_path, sens) ==
    LET ts == now_iso_utc(clock) IN
    /\ Len(db_events) < MaxEvents
    /\ db_events' = IF fault = "insert" THEN db_events
                    ELSE Append(db_events,
                                EventRow(token_id, ts, event_type, severity, details))
    /\ db_tokens' = IF Raises THEN db_tokens
                    ELSE UpdateStatus(db_tokens, token_id, event_type, ts)
    /\ siem' = IF fault = "emit" THEN siem
               ELSE Append(siem, SiemEvent(token_id, ts, event_type, severity,
                                           details, token_path, sens))
    /\ fault' = "none"

\* write_event(token_id, event_type, severity, details, token_path=, sensitivity=):
\* INSERT the event, UPDATE the token, append the JSON line; a statement
\* that raises ends the call there.
write_event(token_id, event_type, severity, details, token_path, sens) ==
    LET ts == now_iso_utc(clock) IN
    /\ Len(db_events) < MaxEvents
    /\ db_events' = IF fault = "insert" THEN db_events
                    ELSE Append(db_events,
                                EventRow(token_id, ts, event_type, severity, details))
    /\ db_tokens' = IF Raises THEN db_tokens
                    ELSE UpdateStatus(db_tokens, token_id, event_type, ts)
    /\ siem' = IF Raises \/ fault = "emit" THEN siem
               ELSE Append(siem, SiemEvent(token_id, ts, event_type, severity,
                                           details, token_path, sens))
    /\ fault' = "none"

\* _log_immediate(token_id, sens, event_type, details, resolved_path=)
log_immediate(token_id, sens, event_type, details, resolved_path) ==
    write_event(token_id, event_type, SEV(sens), details, resolved_path, sens)

\* write_event called for a token of the store with any of the six kinds,
\* the way _log_immediate calls it.
record_alert(token_id, event_type) ==
    /\ db_tokens[token_id].live
    /\ log_immediate(token_id, db_tokens[token_id].sensitivity, event_type,
                     Details(event_type, db_tokens[token_id].path, "", 1, 0),
                     db_tokens[token_id].path)
    /\ UNCHANGED <<clock, syncVars, db_seq, token_map, watchVars, coalVars, main, obs, opn,
                   histVars>>

\* --------------------------------------------------------- thread states

Idle == [pc |-> "idle", kind |-> "", tok |-> 0, sens |-> "", path |-> "",
         src |-> "", now |-> 0]

Sleeping(until, last_refresh) ==
    [pc |-> "sleep", now |-> 0, wake_at |-> until, last_refresh |-> last_refresh,
     to_flush |-> <<>>, new_map |-> [p \in Paths |-> NoTok], added |-> <<>>,
     exit |-> ""]

\* A classified hit: its token, its kind, the clock reading taken for it,
\* whether it went on to an alert or a burst record, and its path (the
\* destination, for a rename).
Hit(tok, kind, t, passed, path) ==
    [tok |-> tok, kind |-> kind, t |-> t, passed |-> passed, path |-> path]

\* ------------------------------------------------------ the burst buffer

Burst(tok, path, sens, first, last, count) ==
    [tok |-> tok, path |-> path, sens |-> sens, first |-> first, last |-> last,
     count |-> count]

HasBurst(bursts, tok) == \E i \in 1..Len(bursts) : bursts[i].tok = tok

BurstOf(bursts, tok) == bursts[CHOOSE i \in 1..Len(bursts) : bursts[i].tok = tok]

\* A buffer that starts the record of the token afresh at every hit.
buffer_store_Fresh(bursts, tok, sens, path, now) ==
    IF HasBurst(bursts, tok)
    THEN [i \in 1..Len(bursts) |->
            IF bursts[i].tok = tok THEN Burst(tok, path, sens, now, now, 1)
            ELSE bursts[i]]
    ELSE Append(bursts, Burst(tok, path, sens, now, now, 1))

\* The body of _buffer_modified under self._lock: a new record with count 1,
\* or the record of the token updated in place.
buffer_store(bursts, tok, sens, path, now) ==
    IF HasBurst(bursts, tok)
    THEN [i \in 1..Len(bursts) |->
            IF bursts[i].tok = tok
            THEN Burst(tok, path, sens, bursts[i].first, now, bursts[i].count + 1)
            ELSE bursts[i]]
    ELSE Append(bursts, Burst(tok, path, sens, now, now, 1))

\* A flush rule without the maximum window.
Ready_QuietOnly(b, now) == now - b.last >= MOD_QUIET_SECONDS

\* quiet or too_long of flush_modified_bursts.
Ready(b, now) ==
    \/ now - b.last >= MOD_QUIET_SECONDS
    \/ now - b.first >= MOD_MAX_WINDOW_SECONDS

IsReady(b) == Ready(b, main.now)

\* A flush that deletes no record from _mod_bursts.
IsNotReady_All(b) == TRUE

IsNotReady(b) == ~Ready(b, main.now)

\* The tokens table when the daemon starts: two decoys in /a.
InitTokens == [i \in Ids |-> IF i = 1 THEN Row("/a/x", "high")
                             ELSE IF i = 2 THEN Row("/a/y", "low")
                             ELSE NoRow]

\* A lookup in the registry main() loaded at startup.
lookup_token_Startup(path) == load_tokens(InitTokens)[Resolve(path)]

\* _lookup_token(path): the registry's entry of the resolved path.
lookup_token(path) == token_map[Resolve(path)]

\* The observer delivers events of the directories it was told to watch.
ObserverSees(path) ==
    /\ obs_sched[Parent(Resolve(path))] > 0
    /\ Parent(Resolve(path)) \notin gone

\* ------------------------------------------------------------------ time

\* Time passes, by a quarter second.
Advance ==
    /\ clock < Epoch + scope.horizon
    /\ clock' = clock + 1
    /\ UNCHANGED <<syncVars, storeVars, token_map, watchVars, coalVars, main,
                   obs, opn, histVars>>

\* Time under the steadiest cadence the loop can have: time.sleep(1.0)
\* lasts 1.0s and the work of one loop turn takes no time; a watcher thread
\* that has read the clock is held up for at most MaxStall.
Tick ==
    /\ main.pc \in {"sleep", "stopped", "crashed"}
    /\ main.pc = "sleep" => clock < main.wake_at
    /\ obs.pc = "buffer" => clock < obs.now + MaxStall
    /\ Advance

\* The daemon runs until main() leaves its loop.
Running == main.exit = ""

\* A watcher has been told to stop: open_watcher.stop() sets its Event,
\* observer.stop() ends the delivery of events.
Told(watcher) == \E i \in 1..Len(stops) : stops[i] = watcher

Delivering == ~Told("observer")

\* A lock that never makes a thread wait.
LockFree_Always(l) == TRUE

\* A lock is free for a thread that wants it; a thread that holds it goes on.
LockFree(l) == locks[l] = "none"

Holds(thread, l) == locks[l] = thread

\* A `with` statement that takes no lock.
Acquire_Nothing(l, thread) == locks

\* `with lock:` entered by a thread.
Acquire(l, thread) == [locks EXCEPT ![l] = thread]

\* A `with` statement that keeps its lock when it is left.
Release_Kept(l) == locks

Release(l) == [locks EXCEPT ![l] = "none"]

\* A loop that never looks at the Event.
stop_is_set_Never == FALSE

\* `while not self._stop.is_set()` of OpenAccessWatcher.run.
stop_is_set == Told("access")

\* Where run() goes from the end of a turn of its loop: to the next read,
\* or out of the loop when the Event is set.
Exited == [Idle EXCEPT !.pc = "exited"]

\* open_watcher is None: HAVE_INOTIFY is false and main() starts no thread.
NoWatcher == [Idle EXCEPT !.pc = "none"]

\* self.open_watcher is not None
HasWatcher == opn.pc # "none"

OpnRest == IF stop_is_set THEN Exited ELSE Idle

\* ------------------------------------------------- the observer's callbacks

\* An exception that leaves a callback: the event is lost, and the
\* dispatching thread of the watchdog library goes on or ends with it.
Aborted == {Idle, [Idle EXCEPT !.pc = "dead"]}

\* on_created / on_modified: directory events and untracked paths return;
\* a hit goes to _buffer_modified, which reads the clock before it takes
\* the lock.
BufferHit(path, is_directory, kind) ==
    /\ Delivering
    /\ obs.pc = "idle"
    /\ ObserverSees(path)
    /\ LockFree("map")
    /\ LET hit == lookup_token(path) IN
       IF is_directory \/ hit = NoTok
       THEN UNCHANGED <<obs, hist>>
       ELSE /\ Len(hist) < scope.hits
            /\ obs' = [Idle EXCEPT !.pc = "buffer", !.kind = kind,
                                   !.tok = hit.id, !.sens = hit.sens,
                                   !.path = Resolve(path), !.now = clock]
            /\ hist' = Append(hist, Hit(hit.id, kind, clock, TRUE, Resolve(path)))
    /\ UNCHANGED <<clock, syncVars, storeVars, token_map, watchVars, coalVars, main, opn,
                   out, admin, scope>>

on_created(path, is_directory) == BufferHit(path, is_directory, "created")

on_modified(path, is_directory) == BufferHit(path, is_directory, "modified")

\* _buffer_modified, the section under self._lock.
buffer_modified ==
    /\ obs.pc = "buffer"
    /\ LockFree("burst")
    /\ mod_bursts' = buffer_store(mod_bursts, obs.tok, obs.sens, obs.path, obs.now)
    /\ obs' = Idle
    /\ UNCHANGED <<clock, syncVars, storeVars, token_map, watchVars, last_seen, main, opn,
                   histVars>>

\* A debounce whose window takes in its far end.
debounced_Inclusive(token_id, event_type, window) ==
    clock - last_seen[<<token_id, event_type>>] <= window

\* A debounce that looks at the token's entries of every kind.
debounced_AnyKind(token_id, event_type, window) ==
    \E k \in DebouncedTypes : clock - last_seen[<<token_id, k>>] < window

\* _debounced(token_id, event_type, window): now - last < window, with
\* last 0.0 for a pair that never fired.
debounced(token_id, event_type, window) ==
    clock - last_seen[<<token_id, event_type>>] < window

\* _debounced and what follows it in a callback: a pair inside its window
\* returns; otherwise the pair's time is set and the thread goes on at pc.
Debounce(thread, rest, hit, event_type, window, pc, src, path) ==
    /\ Len(hist) < scope.hits
    /\ IF debounced(hit.id, event_type, window)
       THEN /\ thread' = rest
            /\ hist' = Append(hist, Hit(hit.id, event_type, clock, FALSE, path))
            /\ UNCHANGED last_seen
       ELSE /\ thread' = [Idle EXCEPT !.pc = pc, !.kind = event_type,
                                      !.tok = hit.id, !.sens = hit.sens,
                                      !.src = src, !.path = path, !.now = clock]
            /\ hist' = Append(hist, Hit(hit.id, event_type, clock, TRUE, path))
            /\ last_seen' = [last_seen EXCEPT ![<<hit.id, event_type>>] = clock]

\* An on_deleted that handles the events of directories like those of files.
on_deleted_Dirs(path, is_directory) ==
    /\ Delivering
    /\ obs.pc = "idle"
    /\ ObserverSees(path)
    /\ LockFree("map")
    /\ LET hit == lookup_token(path) IN
       IF hit = NoTok
       THEN UNCHANGED <<obs, hist, last_seen>>
       ELSE Debounce(obs, Idle, hit, "deleted", DEBOUNCE_WINDOW, "deleted_log", "",
                     Resolve(path))
    /\ UNCHANGED <<clock, syncVars, storeVars, token_map, watchVars, mod_bursts, main,
                   opn, out, admin, scope>>

\* on_deleted up to _log_immediate.
on_deleted(path, is_directory) ==
    /\ Delivering
    /\ obs.pc = "idle"
    /\ ObserverSees(path)
    /\ LockFree("map")
    /\ LET hit == lookup_token(path) IN
       IF is_directory \/ hit = NoTok
       THEN UNCHANGED <<obs, hist, last_seen>>
       ELSE Debounce(obs, Idle, hit, "deleted", DEBOUNCE_WINDOW, "deleted_log", "",
                     Resolve(path))
    /\ UNCHANGED <<clock, syncVars, storeVars, token_map, watchVars, mod_bursts, main,
                   opn, out, admin, scope>>

\* on_deleted: _log_immediate(token_id, sens, "deleted", "deleted -> path").
deleted_log ==
    /\ obs.pc = "deleted_log"
    /\ log_immediate(obs.tok, obs.sens, "deleted",
                     Details("deleted", obs.path, "", 1, 0), obs.path)
    /\ obs' \in (IF Raises THEN Aborted ELSE {Idle})
    /\ UNCHANGED <<clock, syncVars, db_seq, token_map, watchVars, coalVars, main, opn,
                   histVars>>

\* on_moved up to the branch: the source is looked up under _map_lock; a
\* tracked source is debounced as "renamed", an untracked one goes on to
\* the lookup of the destination.
on_moved(src_path, dest_path, is_directory) ==
    /\ Delivering
    /\ obs.pc = "idle"
    /\ ObserverSees(src_path) \/ ObserverSees(dest_path)
    /\ LockFree("map")
    /\ Resolve(src_path) # Resolve(dest_path)
    /\ LET src == Resolve(src_path)
           dest == Resolve(dest_path)
           src_hit == token_map[src]
       IN  IF is_directory
           THEN UNCHANGED <<obs, hist, last_seen>>
           ELSE IF src_hit # NoTok
           THEN Debounce(obs, Idle, src_hit, "renamed", DEBOUNCE_WINDOW, "moved_log",
                         src, dest)
           ELSE /\ obs' = [Idle EXCEPT !.pc = "moved_dest", !.kind = "saved",
                                       !.src = src, !.path = dest]
                /\ UNCHANGED <<hist, last_seen>>
    /\ UNCHANGED <<clock, syncVars, storeVars, token_map, watchVars, mod_bursts, main,
                   opn, out, admin, scope>>

\* on_moved, a tracked source: _log_immediate(token_id, sens, "renamed",
\* "renamed -> src (to dest)", resolved_path=dest).
moved_log ==
    /\ obs.pc = "moved_log"
    /\ log_immediate(obs.tok, obs.sens, "renamed",
                     Details("renamed", obs.src, obs.path, 1, 0), obs.path)
    /\ obs' \in (IF Raises THEN Aborted ELSE {[obs EXCEPT !.pc = "moved_store"]})
    /\ UNCHANGED <<clock, syncVars, db_seq, token_map, watchVars, coalVars, main, opn,
                   histVars>>

\* UPDATE tokens SET path=? WHERE id=?: path is UNIQUE, so the statement
\* raises when another row holds the path.
PathTaken(tokens, token_id, path) ==
    \E i \in Ids \ {token_id} : tokens[i].live /\ tokens[i].path = path

update_token_path(tokens, token_id, path) ==
    IF tokens[token_id].live
    THEN [tokens EXCEPT ![token_id].path = path]
    ELSE tokens

\* on_moved, a tracked source: the stored path becomes the destination.
moved_store ==
    /\ obs.pc = "moved_store"
    /\ IF db_tokens[obs.tok].live /\ PathTaken(db_tokens, obs.tok, obs.path)
       THEN /\ obs' \in Aborted
            /\ UNCHANGED db_tokens
       ELSE /\ obs' = [obs EXCEPT !.pc = "moved_map"]
            /\ db_tokens' = update_token_path(db_tokens, obs.tok, obs.path)
    /\ UNCHANGED <<clock, syncVars, db_seq, db_events, siem, fault, token_map, watchVars,
                   coalVars, main, opn, histVars>>

\* The second section of on_moved under _map_lock, its two statements:
\* `del self.token_map[src]` when the key is there, and
\* `self.token_map[dest] = (token_id, sens)`.
del_entry(map, src) == [map EXCEPT ![src] = NoTok]

set_entry(map, dest, token_id, sens) ==
    [map EXCEPT ![dest] = [id |-> token_id, sens |-> sens]]

move_entry(map, src, dest, token_id, sens) ==
    set_entry(del_entry(map, src), dest, token_id, sens)

\* on_moved takes _map_lock and removes the source key.
moved_map ==
    /\ obs.pc = "moved_map"
    /\ LockFree("map")
    /\ locks' = Acquire("map", "obs")
    /\ token_map' = del_entry(token_map, obs.src)
    /\ obs' = [obs EXCEPT !.pc = "moved_set"]
    /\ UNCHANGED <<clock, stops, gone, storeVars, watchVars, coalVars, main, opn,
                   histVars>>

\* on_moved sets the destination key and leaves _map_lock.
moved_set ==
    /\ obs.pc = "moved_set"
    /\ locks' = Release("map")
    /\ token_map' = set_entry(token_map, obs.path, obs.tok, obs.sens)
    /\ obs' = [obs EXCEPT !.pc = "moved_watch"]
    /\ UNCHANGED <<clock, stops, gone, storeVars, watchVars, coalVars, main, opn,
                   histVars>>

\* A check that takes every directory for watched.
NeedsWatch_Never(path) == FALSE

\* _ensure_watch_dir_for: `d in self.watched_dirs` under _watch_lock.
NeedsWatch(path) == Parent(Resolve(path)) \notin watched_dirs

\* A set that is replaced by the directory added.
watch_add_Only(dirs, d) == {d}

\* self.watched_dirs.add(d)
watch_add(dirs, d) == dirs \cup {d}

\* observer.schedule(self, d, recursive=False) of a directory that is
\* there, and self.watched_dirs.add(d).
schedule_dir(path) ==
    /\ obs_sched' = [obs_sched EXCEPT ![Parent(Resolve(path))] = @ + 1]
    /\ watched_dirs' = watch_add(watched_dirs, Parent(Resolve(path)))

\* observer.schedule starts an inotify watch at once when the observer
\* runs: for a directory that is missing or unreadable it raises OSError.
ScheduleRaises(path) == Parent(Resolve(path)) \in gone

\* OpenAccessWatcher.add_dir under its _lock: a directory it already
\* watches returns, one that is missing or unreadable returns
\* (FileNotFoundError and PermissionError are caught), another is added.
add_dir(d) ==
    /\ LockFree("open")
    /\ dir_to_wd' = IF d \in dir_to_wd \/ d \in gone THEN dir_to_wd
                    ELSE watch_add(dir_to_wd, d)

\* on_moved, a tracked source: _ensure_watch_dir_for(dest) takes
\* _watch_lock and returns if the directory is watched.
moved_watch ==
    /\ obs.pc = "moved_watch"
    /\ LockFree("watch")
    /\ IF NeedsWatch(obs.path)
       THEN /\ locks' = Acquire("watch", "obs")
            /\ obs' = [obs EXCEPT !.pc = "moved_sched"]
       ELSE /\ obs' = Idle
            /\ UNCHANGED locks
    /\ UNCHANGED <<clock, stops, gone, storeVars, token_map, watchVars, coalVars,
                   main, opn, histVars>>

\* _ensure_watch_dir_for(dest): observer.schedule and watched_dirs.add
\* under _watch_lock; an exception of schedule leaves the callback.
moved_sched ==
    /\ obs.pc = "moved_sched"
    /\ locks' = Release("watch")
    /\ IF ScheduleRaises(obs.path)
       THEN /\ obs' \in Aborted
            /\ UNCHANGED <<obs_sched, watched_dirs>>
       ELSE /\ schedule_dir(obs.path)
            /\ obs' = [obs EXCEPT !.pc = "moved_open"]
    /\ UNCHANGED <<clock, stops, gone, storeVars, token_map, dir_to_wd, coalVars,
                   main, opn, histVars>>

\* _ensure_watch_dir_for(dest): the call of open_watcher.add_dir and the
\* return.
\* An _ensure_watch_dir_for that calls add_dir on whatever open_watcher is:
\* on None the call raises and the callback ends there.
moved_open_Unchecked ==
    /\ obs.pc = "moved_open"
    /\ IF HasWatcher
       THEN add_dir(Parent(obs.path)) /\ obs' = Idle
       ELSE UNCHANGED dir_to_wd /\ obs' \in Aborted
    /\ UNCHANGED <<clock, syncVars, storeVars, token_map, watched_dirs, obs_sched,
                   coalVars, main, opn, histVars>>

moved_open ==
    /\ obs.pc = "moved_open"
    /\ IF HasWatcher THEN add_dir(Parent(obs.path)) ELSE UNCHANGED dir_to_wd
    /\ obs' = Idle
    /\ UNCHANGED <<clock, syncVars, storeVars, token_map, watched_dirs, obs_sched,
                   coalVars, main, opn, histVars>>

\* on_moved, an untracked source: the destination is looked up under
\* _map_lock; a tracked one is buffered like a modification.
moved_dest ==
    /\ obs.pc = "moved_dest"
    /\ LockFree("map")
    /\ LET dest_hit == token_map[obs.path] IN
       IF dest_hit = NoTok
       THEN /\ obs' = Idle
            /\ UNCHANGED hist
       ELSE /\ Len(hist) < scope.hits
            /\ obs' = [Idle EXCEPT !.pc = "buffer", !.kind = "saved",
                                   !.tok = dest_hit.id, !.sens = dest_hit.sens,
                                   !.path = obs.path, !.now = clock]
            /\ hist' = Append(hist, Hit(dest_hit.id, "saved", clock, TRUE, obs.path))
    /\ UNCHANGED <<clock, syncVars, storeVars, token_map, watchVars, coalVars, main, opn,
                   out, admin, scope>>

\* ------------------------------------------------------ the access watcher

\* OpenAccessWatcher.run, one event of a watched directory returned by
\* inotify.read: a tracked path closed without a write is debounced as
\* "opened" with a window of 1.0s; then the loop turns.
access_event(path, close_nowrite) ==
    /\ opn.pc = "idle"
    /\ Parent(path) \in dir_to_wd
    /\ Parent(path) \notin gone
    /\ LockFree("map")
    /\ LET hit == lookup_token(path) IN
       IF hit = NoTok \/ ~close_nowrite
       THEN /\ opn' = OpnRest
            /\ UNCHANGED <<hist, last_seen>>
       ELSE Debounce(opn, OpnRest, hit, OpenedKind, OPENED_WINDOW, "opened_log",
                     "", path)
    /\ UNCHANGED <<clock, syncVars, storeVars, token_map, watchVars, mod_bursts,
                   main, obs, out, admin, scope>>

\* OpenAccessWatcher.run, an event of a watched directory that arrives
\* while another thread is inside `with self._map_lock`: _lookup_token
\* waits for the lock.
access_wait(path, close_nowrite) ==
    /\ opn.pc = "idle"
    /\ Parent(path) \in dir_to_wd
    /\ Parent(path) \notin gone
    /\ ~LockFree("map")
    /\ Len(hist) < scope.hits
    /\ opn' = [Idle EXCEPT !.pc = "lookup", !.path = path,
                           !.kind = IF close_nowrite THEN "close_nowrite" ELSE "open"]
    /\ UNCHANGED <<clock, syncVars, storeVars, token_map, watchVars, coalVars,
                   main, obs, histVars>>

\* OpenAccessWatcher.run: _lookup_token gets _map_lock, and the event is
\* handled as in access_event.
access_lookup ==
    /\ opn.pc = "lookup"
    /\ LockFree("map")
    /\ LET hit == lookup_token(opn.path) IN
       IF hit = NoTok \/ opn.kind # "close_nowrite"
       THEN /\ opn' = OpnRest
            /\ UNCHANGED <<hist, last_seen>>
       ELSE Debounce(opn, OpnRest, hit, OpenedKind, OPENED_WINDOW, "opened_log",
                     "", opn.path)
    /\ UNCHANGED <<clock, syncVars, storeVars, token_map, watchVars, mod_bursts,
                   main, obs, out, admin, scope>>

\* OpenAccessWatcher.run: _log_immediate(token_id, sens, "opened",
\* "opened(read) -> path").  An exception ends run(), and the thread.
opened_log ==
    /\ opn.pc = "opened_log"
    /\ log_immediate(opn.tok, opn.sens, OpenedKind,
                     Details("opened", opn.path, "", 1, 0), opn.path)
    /\ opn' = IF Raises THEN [Idle EXCEPT !.pc = "dead"] ELSE OpnRest
    /\ UNCHANGED <<clock, syncVars, db_seq, token_map, watchVars, coalVars, main,
                   obs, histVars>>

\* OpenAccessWatcher.run: inotify.read raises, and the loop sleeps 0.5s
\* before its next turn.
read_error ==
    /\ opn.pc = "idle"
    /\ opn' = [Idle EXCEPT !.pc = "backoff", !.now = clock]
    /\ UNCHANGED <<clock, syncVars, storeVars, token_map, watchVars, coalVars,
                   main, obs, histVars>>

backoff_done ==
    /\ opn.pc = "backoff"
    /\ opn' = OpnRest
    /\ UNCHANGED <<clock, syncVars, storeVars, token_map, watchVars, coalVars,
                   main, obs, histVars>>

\* OpenAccessWatcher.run: inotify.read(timeout=1000) returns nothing and
\* the loop finds the Event set.
run_exit ==
    /\ opn.pc = "idle"
    /\ stop_is_set
    /\ opn' = Exited
    /\ UNCHANGED <<clock, syncVars, storeVars, token_map, watchVars, coalVars,
                   main, obs, histVars>>

\* ---------------------------------------------------------- the main loop

\* A loop that notes the signal and goes on with its turn.
Halted_GoesOn(how) == [main EXCEPT !.exit = how]

\* Leaving the loop of main(), by KeyboardInterrupt or by any other
\* exception: the finally block begins, and main() will end as `how`.
Halted(how) == [main EXCEPT !.pc = "stop_open", !.exit = how,
                           !.to_flush = <<>>, !.added = <<>>]

\* time.sleep(1.0) returns and flush_modified_bursts reads the clock.
flush_begin ==
    /\ main.pc = "sleep"
    /\ clock >= main.wake_at
    /\ main' = [main EXCEPT !.pc = "flush_scan", !.now = clock]
    /\ UNCHANGED <<clock, syncVars, storeVars, token_map, watchVars, coalVars, obs, opn,
                   histVars>>

\* A flush that keeps self._lock while it records the bursts it found.
scan_unlock_Late(l) ==
    IF SelectSeq(mod_bursts, IsReady) = <<>> THEN [l EXCEPT !["burst"] = "none"]
    ELSE l

\* The end of `with self._lock` in flush_modified_bursts.
scan_unlock(l) == [l EXCEPT !["burst"] = "none"]

\* flush_modified_bursts, the section under self._lock: every record that
\* is quiet or too long moves from _mod_bursts to to_flush, and the lock
\* is left.
flush_scan ==
    /\ main.pc = "flush_scan"
    /\ LockFree("burst")
    /\ locks' = scan_unlock(Acquire("burst", "main"))
    /\ main' = [main EXCEPT !.pc = "flush_emit",
                            !.to_flush = SelectSeq(mod_bursts, IsReady)]
    /\ mod_bursts' = SelectSeq(mod_bursts, IsNotReady)
    /\ UNCHANGED <<clock, stops, gone, storeVars, token_map, watchVars, last_seen,
                   obs, opn, histVars>>

\* details of a flushed burst: "modified -> path", with the count and the
\* duration when count > 1.
BurstDetails(b) ==
    IF b.count <= 1
    THEN Details("modified", b.path, "", 1, 0)
    ELSE Details("modified", b.path, "", b.count,
                 IF b.last - b.first > 0 THEN b.last - b.first ELSE 0)

\* flush_modified_bursts, one turn of the loop over to_flush.  Nothing
\* between _log_immediate and the loop of main() catches an exception.
\* A flush that records a burst under the kind of the token's last hit.
flush_emit_AsHit ==
    /\ main.pc = "flush_emit"
    /\ main.to_flush # <<>>
    /\ LET b == Head(main.to_flush)
           hs == SelectSeq(hist, LAMBDA h : h.tok = b.tok /\ h.passed)
       IN  log_immediate(b.tok, b.sens,
                         IF hs = <<>> THEN "modified" ELSE hs[Len(hs)].kind,
                         BurstDetails(b), b.path)
    /\ main' = IF Raises THEN Halted("crashed")
               ELSE [main EXCEPT !.to_flush = Tail(@)]
    /\ UNCHANGED <<clock, syncVars, db_seq, token_map, watchVars, coalVars, obs, opn,
                   histVars>>

flush_emit ==
    /\ main.pc = "flush_emit"
    /\ main.to_flush # <<>>
    /\ LET b == Head(main.to_flush) IN
       log_immediate(b.tok, b.sens, "modified", BurstDetails(b), b.path)
    /\ main' = IF Raises THEN Halted("crashed")
               ELSE [main EXCEPT !.to_flush = Tail(@)]
    /\ UNCHANGED <<clock, syncVars, db_seq, token_map, watchVars, coalVars, obs, opn,
                   histVars>>

\* A set of paths as a list.
RECURSIVE ListOf(_)
ListOf(S) == IF S = {} THEN <<>>
             ELSE LET p == CHOOSE p \in S : TRUE IN <<p>> \o ListOf(S \ {p})

\* added of refresh_tokens_from_db: the paths of new_map not in old_map.
Added(old_map, new_map) ==
    ListOf({p \in Paths : new_map[p] # NoTok /\ old_map[p] = NoTok})

\* Back in main(): the clock is read and, when TOKEN_REFRESH_SECONDS have
\* passed, refresh_tokens_from_db starts with load_tokens(); otherwise the
\* loop sleeps again.
refresh_begin ==
    /\ main.pc = "flush_emit"
    /\ main.to_flush = <<>>
    /\ main' = IF clock - main.last_refresh >= TOKEN_REFRESH_SECONDS
               THEN [main EXCEPT !.pc = "refresh_swap", !.now = clock,
                                 !.new_map = load_tokens(db_tokens)]
               ELSE Sleeping(clock + TICK_SLEEP, main.last_refresh)
    /\ UNCHANGED <<clock, syncVars, storeVars, token_map, watchVars, coalVars, obs, opn,
                   histVars>>

\* A comparison that never finds the two maps equal.
SameMap_Never(new_map, old_map) == FALSE

\* new_map == old_map of refresh_tokens_from_db.
SameMap(new_map, old_map) == new_map = old_map

\* refresh_tokens_from_db, the section under self._map_lock: an equal map
\* returns at once; a different one replaces token_map.
refresh_swap ==
    /\ main.pc = "refresh_swap"
    /\ LockFree("map")
    /\ IF SameMap(main.new_map, token_map)
       THEN /\ main' = Sleeping(clock + TICK_SLEEP, main.now)
            /\ UNCHANGED token_map
       ELSE /\ main' = [main EXCEPT !.pc = "refresh_watch",
                                    !.added = Added(token_map, main.new_map)]
            /\ token_map' = main.new_map
    /\ UNCHANGED <<clock, syncVars, storeVars, watchVars, coalVars, obs, opn, histVars>>

\* refresh_tokens_from_db, the loop over added: _ensure_watch_dir_for(p)
\* takes _watch_lock and returns if the directory is watched; after the
\* last path the "Token refresh" line is printed and main() sleeps again.
refresh_watch ==
    /\ main.pc = "refresh_watch"
    /\ IF main.added = <<>>
       THEN /\ main' = Sleeping(clock + TICK_SLEEP, main.now)
            /\ out' = out + 1
            /\ UNCHANGED locks
       ELSE /\ LockFree("watch")
            /\ IF NeedsWatch(Head(main.added))
               THEN /\ locks' = Acquire("watch", "main")
                    /\ main' = [main EXCEPT !.pc = "refresh_sched"]
               ELSE /\ main' = [main EXCEPT !.added = Tail(@)]
                    /\ UNCHANGED locks
            /\ UNCHANGED out
    /\ UNCHANGED <<clock, stops, gone, storeVars, token_map, watchVars, coalVars,
                   obs, opn, hist, admin, scope>>

\* _ensure_watch_dir_for(p): observer.schedule and watched_dirs.add under
\* _watch_lock; an exception of schedule leaves refresh_tokens_from_db
\* and the loop of main().
refresh_sched ==
    /\ main.pc = "refresh_sched"
    /\ locks' = Release("watch")
    /\ IF ScheduleRaises(Head(main.added))
       THEN /\ main' = Halted("crashed")
            /\ UNCHANGED <<obs_sched, watched_dirs>>
       ELSE /\ schedule_dir(Head(main.added))
            /\ main' = [main EXCEPT !.pc = "refresh_open"]
    /\ UNCHANGED <<clock, stops, gone, storeVars, token_map, dir_to_wd, coalVars,
                   obs, opn, histVars>>

\* _ensure_watch_dir_for(p), the call of open_watcher.add_dir.
refresh_open ==
    /\ main.pc = "refresh_open"
    /\ IF HasWatcher THEN add_dir(Parent(Head(main.added))) ELSE UNCHANGED dir_to_wd
    /\ main' = [main EXCEPT !.pc = "refresh_watch", !.added = Tail(@)]
    /\ UNCHANGED <<clock, syncVars, storeVars, token_map, watched_dirs, obs_sched,
                   coalVars, obs, opn, histVars>>

\* KeyboardInterrupt, the stop signal, at any point of the loop.
interrupt ==
    /\ Running
    /\ main' = Halted("stopped")
    /\ locks' = [l \in Locks |-> IF locks[l] = "main" THEN "none" ELSE locks[l]]
    /\ UNCHANGED <<clock, stops, gone, storeVars, token_map, watchVars, coalVars,
                   obs, opn, histVars>>

\* finally: open_watcher.stop()
stop_access ==
    /\ main.pc = "stop_open"
    /\ stops' = IF HasWatcher THEN Append(stops, "access") ELSE stops
    /\ main' = [main EXCEPT !.pc = "stop_observer"]
    /\ UNCHANGED <<clock, locks, gone, storeVars, token_map, watchVars, coalVars,
                   obs, opn, histVars>>

\* finally: observer.stop()
stop_observer ==
    /\ main.pc = "stop_observer"
    /\ stops' = Append(stops, "observer")
    /\ main' = [main EXCEPT !.pc = "join"]
    /\ UNCHANGED <<clock, locks, gone, storeVars, token_map, watchVars, coalVars,
                   obs, opn, histVars>>

\* finally: observer.join() returns when the callback under way has
\* returned, and main() ends.
join_observer ==
    /\ main.pc = "join"
    /\ obs.pc \in {"idle", "dead"}
    /\ main' = [main EXCEPT !.pc = main.exit]
    /\ UNCHANGED <<clock, syncVars, storeVars, token_map, watchVars, coalVars,
                   obs, opn, histVars>>

\* ------------------------------------------------ the management console

\* add_token: a row with a fresh id and status 'ok' for a file planted at
\* a path no file holds, in a directory that is made if it is missing,
\* and its 'created' event.
add_token(path, sensitivity) ==
    /\ admin < MaxAdmin
    /\ db_seq + 1 \in Ids
    /\ Len(db_events) < MaxEvents
    /\ ~PathTaken(db_tokens, 0, path)
    /\ db_seq' = db_seq + 1
    /\ db_tokens' = [db_tokens EXCEPT ![db_seq + 1] = Row(path, sensitivity)]
    /\ db_events' = Append(db_events,
                           EventRow(db_seq + 1, now_iso_utc(clock), "created", "low",
                                    Details("planted", path, "", 1, 0)))
    /\ admin' = admin + 1
    /\ gone' = gone \ {Parent(path)}
    /\ UNCHANGED <<clock, locks, stops, siem, fault, token_map, watchVars, coalVars,
                   main, obs, opn, out, hist, scope>>

IsNotOf(token_id, e) == e.token_id # token_id

\* delete_token: the events of the token go, then its row.
delete_token(token_id) ==
    /\ admin < MaxAdmin
    /\ db_tokens[token_id].live
    /\ db_events' = SelectSeq(db_events, LAMBDA e : IsNotOf(token_id, e))
    /\ db_tokens' = [db_tokens EXCEPT ![token_id] = NoRow]
    /\ admin' = admin + 1
    /\ UNCHANGED <<clock, syncVars, db_seq, siem, fault, token_map, watchVars, coalVars,
                   main, obs, opn, out, hist, scope>>

\* The UPDATE of reset_token_status.
reset_status(tokens, token_id) ==
    IF tokens[token_id].live
    THEN [tokens EXCEPT ![token_id].status = "ok"]
    ELSE tokens

\* reset_token_status: status 'ok', and a 'note' event.
reset_token_status(token_id) ==
    /\ admin < MaxAdmin
    /\ Len(db_events) < MaxEvents
    /\ db_tokens' = reset_status(db_tokens, token_id)
    /\ db_events' = Append(db_events,
                           EventRow(token_id, now_iso_utc(clock), "note", "low",
                                    Details("reset", "", "", 1, 0)))
    /\ admin' = admin + 1
    /\ UNCHANGED <<clock, syncVars, db_seq, siem, fault, token_map, watchVars, coalVars,
                   main, obs, opn, out, hist, scope>>

\* The store or the alert stream becomes unusable for the next alert:
\* the INSERT fails, the UPDATE fails, or the append to the stream fails.
store_fault(what) ==
    /\ fault = "none"
    /\ fault' = what
    /\ UNCHANGED <<clock, syncVars, db_tokens, db_seq, db_events, siem, token_map,
                   watchVars, coalVars, main, obs, opn, histVars>>

\* A directory is removed or made unreadable.
remove_dir(d) ==
    /\ d \notin gone
    /\ gone' = gone \cup {d}
    /\ UNCHANGED <<clock, locks, stops, storeVars, token_map, watchVars, coalVars,
                   main, obs, opn, histVars>>

\* --------------------------------------------------------------- startup

\* The parent directories of the paths of a registry.
DirsOf(map) == {Parent(p) : p \in {q \in Paths : map[q] # NoTok}}

\* main() up to the loop: the registry is loaded, the parent directory of
\* every token path is scheduled on the observer and added to the access
\* watcher, last_refresh = 0.0 and the first sleep begins.
Boot(horizon, hits, have_inotify) ==
    /\ scope = [horizon |-> horizon, hits |-> hits]
    /\ clock = Epoch
    /\ db_tokens = InitTokens
    /\ db_seq = 2
    /\ db_events = <<>>
    /\ siem = <<>>
    /\ fault = "none"
    /\ token_map = load_tokens(InitTokens)
    /\ watched_dirs = DirsOf(load_tokens(InitTokens))
    /\ obs_sched = [d \in Dirs |-> IF d \in DirsOf(load_tokens(InitTokens))
                                   THEN 1 ELSE 0]
    /\ dir_to_wd = IF have_inotify THEN DirsOf(load_tokens(InitTokens)) ELSE {}
    /\ last_seen = [k \in Ids \X DebouncedTypes |-> 0]
    /\ mod_bursts = <<>>
    /\ main = Sleeping(Epoch + TICK_SLEEP, 0)
    /\ obs = Idle
    /\ opn = IF have_inotify THEN Idle ELSE NoWatcher
    /\ out = 0
    /\ hist = <<>>
    /\ admin = 0
    /\ locks = [l \in Locks |-> "none"]
    /\ stops = <<>>
    /\ gone = {}

\* HAVE_INOTIFY: inotify_simple could be imported.
HAVE_INOTIFY == TRUE

Start(horizon, hits) == Boot(horizon, hits, HAVE_INOTIFY)

Init == Start(Horizon, MaxHits)

\* The start of the scenarios that need no maintenance loop.
InitShort == Start(ShortHorizon, FewHits)

\* ------------------------------------------------------- burst scenarios

\* The turns of the maintenance loop while the registry does not change.
Maintenance ==
    \/ flush_begin
    \/ flush_scan
    \/ flush_emit
    \/ refresh_begin
    \/ refresh_swap

\* Writes to one decoy while the maintenance loop ticks.
NextBurst ==
    \/ Tick
    \/ on_modified("/a/x", FALSE)
    \/ buffer_modified
    \/ Maintenance

SpecBurst == Init /\ [][NextBurst]_vars

\* The maintenance loop keeps ticking: time passes, time.sleep returns,
\* each step of the loop's turn is taken, and a callback that holds a hit
\* stores it.
FairBurst ==
    /\ WF_vars(Tick)
    /\ WF_vars(Maintenance)
    /\ WF_vars(buffer_modified)

InitBurstFair == Start(Horizon, MaxHits - 1)

SpecBurstFair == InitBurstFair /\ [][NextBurst]_vars /\ FairBurst

\* Writes to the two decoys of /a and files created beside them, while
\* the maintenance loop ticks.
NextFlush ==
    \/ Tick
    \/ \E p \in {"/a/x", "/a/y"} : on_modified(p, FALSE)
    \/ on_created("/a/y", FALSE)
    \/ buffer_modified
    \/ Maintenance

InitFlush == Start(Horizon, FewHits)

SpecFlush == InitFlush /\ [][NextFlush]_vars

\* ---------------------------------------------------- debounce scenarios

\* Deletions of the two decoys of /a, at any times.
NextDebounce ==
    \/ Advance
    \/ \E p \in {"/a/x", "/a/../a/x", "/a/y"}, d \in BOOLEAN : on_deleted(p, d)
    \/ deleted_log

SpecDebounce == InitShort /\ [][NextDebounce]_vars

\* ----------------------------------------------------- status scenarios

\* Alerts of every kind for the decoys, and resets from the console.
NextStatus ==
    \/ Advance
    \/ \E t \in Ids, k \in EventTypes : record_alert(t, k)
    \/ \E t \in Ids : reset_token_status(t)

SpecStatus == InitShort /\ [][NextStatus]_vars

\* Time while no callback is under way: a callback that has begun ends
\* within the quarter second.
TickIdle ==
    /\ obs.pc \in {"idle", "dead"}
    /\ opn.pc \in {"idle", "dead", "exited", "none"}
    /\ Tick

\* What the watchers and the maintenance loop do to one decoy that is
\* written, opened, deleted and renamed, with resets from the console.
NextLifecycle ==
    \/ TickIdle
    \/ on_modified("/a/x", FALSE)
    \/ buffer_modified
    \/ on_deleted("/a/x", FALSE)
    \/ deleted_log
    \/ access_event("/a/x", TRUE)
    \/ opened_log
    \/ on_moved("/a/x", "/b/z", FALSE)
    \/ moved_log
    \/ moved_store
    \/ moved_map
    \/ moved_set
    \/ moved_watch
    \/ moved_sched
    \/ moved_open
    \/ Maintenance
    \/ refresh_watch
    \/ refresh_sched
    \/ refresh_open
    \/ reset_token_status(1)

InitLifecycle == Start(LifeHorizon, FewHits)

SpecLifecycle == InitLifecycle /\ [][NextLifecycle]_vars

\* ---------------------------------------------------- refresh scenarios

\* The maintenance loop while the console plants and removes decoys.
NextRefresh ==
    \/ Tick
    \/ flush_begin
    \/ flush_scan
    \/ refresh_begin
    \/ refresh_swap
    \/ refresh_watch
    \/ refresh_sched
    \/ refresh_open
    \/ \E p \in Paths, s \in Sensitivities : add_token(p, s)
    \/ \E t \in Ids : delete_token(t)

SpecRefresh == Init /\ [][NextRefresh]_vars

\* ------------------------------------------------------ watch scenarios

\* Decoys are planted in a new directory, renamed into it and back, and
\* removed, and the directory is removed, while the registry is refreshed,
\* until main() ends.
NextWatch ==
    \/ Tick
    \/ flush_begin
    \/ flush_scan
    \/ refresh_begin
    \/ refresh_swap
    \/ refresh_watch
    \/ refresh_sched
    \/ refresh_open
    \/ on_moved("/a/x", "/b/z", FALSE)
    \/ on_moved("/b/z", "/a/x", FALSE)
    \/ moved_log
    \/ moved_store
    \/ moved_map
    \/ moved_set
    \/ moved_watch
    \/ moved_sched
    \/ moved_open
    \/ add_token("/b/z", "low")
    \/ \E t \in Ids : delete_token(t)
    \/ remove_dir("/b")
    \/ stop_access
    \/ stop_observer
    \/ join_observer

SpecWatch == InitShort /\ [][NextWatch]_vars

\* ---------------------------------------------------- failure scenarios

\* Writes and opens of one decoy while the store fails now and then, until
\* the stop signal.
NextFail ==
    \/ TickIdle
    \/ \E what \in {"insert", "update", "emit"} : store_fault(what)
    \/ on_modified("/a/x", FALSE)
    \/ buffer_modified
    \/ access_event("/a/x", TRUE)
    \/ opened_log
    \/ Maintenance
    \/ interrupt
    \/ stop_access
    \/ stop_observer
    \/ join_observer
    \/ run_exit

SpecFail == InitLifecycle /\ [][NextFail]_vars

\* ------------------------------------------------------- stop scenarios

\* Writes, opens and a rename of one decoy, read errors of the access
\* watcher, the maintenance loop, and the stop signal with the finally
\* block of main().
NextStop ==
    \/ TickIdle
    \/ on_modified("/a/x", FALSE)
    \/ buffer_modified
    \/ on_moved("/a/x", "/b/z", FALSE)
    \/ moved_log
    \/ moved_store
    \/ moved_map
    \/ moved_set
    \/ moved_watch
    \/ moved_sched
    \/ moved_open
    \/ access_event("/a/x", TRUE)
    \/ access_wait("/a/x", TRUE)
    \/ access_lookup
    \/ opened_log
    \/ read_error
    \/ backoff_done
    \/ run_exit
    \/ flush_begin
    \/ flush_scan
    \/ flush_emit
    \/ refresh_begin
    \/ refresh_swap
    \/ refresh_watch
    \/ refresh_sched
    \/ refresh_open
    \/ interrupt
    \/ stop_access
    \/ stop_observer
    \/ join_observer

SpecStop == InitLifecycle /\ [][NextStop]_vars

\* Opens and one rename of a decoy, read errors of the access watcher,
\* and the stop signal with the finally block of main().
NextAccessStop ==
    \/ TickIdle
    \/ on_moved("/a/x", "/b/z", FALSE)
    \/ moved_log
    \/ moved_store
    \/ moved_map
    \/ moved_set
    \/ moved_watch
    \/ moved_sched
    \/ moved_open
    \/ \E p \in {"/a/x", "/a/y"}, c \in BOOLEAN : access_event(p, c)
    \/ \E p \in {"/a/x", "/a/y"}, c \in BOOLEAN : access_wait(p, c)
    \/ access_lookup
    \/ opened_log
    \/ read_error
    \/ backoff_done
    \/ run_exit
    \/ interrupt
    \/ stop_access
    \/ stop_observer
    \/ join_observer

\* A thread that can run does run: the access watcher's read returns
\* within its timeout, its sleep ends, its calls return, and a thread
\* inside `with self._map_lock` leaves it.
FairAccessStop ==
    /\ WF_vars(run_exit)
    /\ WF_vars(backoff_done)
    /\ WF_vars(access_lookup)
    /\ WF_vars(opened_log)
    /\ WF_vars(moved_set)

SpecAccessStop == InitLifecycle /\ [][NextAccessStop]_vars /\ FairAccessStop

\* ------------------------------------------------------ rename scenarios

\* Renames among the three paths, writes to a decoy, and the loop.
NextRename ==
    \/ Advance
    \/ \E s \in RawPaths, t \in Paths, d \in BOOLEAN : on_moved(s, t, d)
    \/ moved_log
    \/ moved_store
    \/ moved_map
    \/ moved_set
    \/ moved_watch
    \/ moved_sched
    \/ moved_open
    \/ moved_dest
    \/ on_modified("/a/y", FALSE)
    \/ buffer_modified

SpecRename == InitShort /\ [][NextRename]_vars

\* ----------------------------------------------------- removed decoys

\* A decoy is removed from the console and the registry refreshed, while
\* the decoy's file is still written, opened, deleted and renamed.
NextRemoved ==
    \/ TickIdle
    \/ delete_token(1)
    \/ on_modified("/a/x", FALSE)
    \/ buffer_modified
    \/ on_deleted("/a/x", FALSE)
    \/ deleted_log
    \/ on_moved("/a/x", "/b/z", FALSE)
    \/ moved_log
    \/ moved_store
    \/ moved_map
    \/ moved_set
    \/ moved_watch
    \/ moved_sched
    \/ moved_open
    \/ moved_dest
    \/ access_event("/a/x", TRUE)
    \/ opened_log
    \/ Maintenance
    \/ refresh_watch

SpecRemoved == InitLifecycle /\ [][NextRemoved]_vars

\* ------------------------------------------------------ severity levels

\* The tokens table takes any text as a sensitivity (db.py, SCHEMA); the
\* dialog of the console offers low, medium and high.
StoredSensitivities == Sensitivities \cup {"critical"}

\* A decoy of any sensitivity is planted in /b, taken into the registry
\* by the next refresh, and then written, opened and deleted.
NextSeverity ==
    \/ TickIdle
    \/ \E s \in StoredSensitivities : add_token("/b/z", s)
    \/ on_modified("/b/z", FALSE)
    \/ buffer_modified
    \/ on_deleted("/b/z", FALSE)
    \/ deleted_log
    \/ access_event("/b/z", TRUE)
    \/ opened_log
    \/ Maintenance
    \/ refresh_watch
    \/ refresh_sched
    \/ refresh_open

InitSeverity == Start(Horizon, FewHits)

SpecSeverity == InitSeverity /\ [][NextSeverity]_vars

\* ------------------------------------------- with and without inotify

\* The daemon with and without the access watcher: decoys are written,
\* deleted, renamed into /b and opened, and one is planted in /b.
NextEither ==
    \/ TickIdle
    \/ add_token("/b/z", "low")
    \/ on_modified("/a/x", FALSE)
    \/ buffer_modified
    \/ on_deleted("/a/y", FALSE)
    \/ deleted_log
    \/ on_moved("/a/x", "/b/z", FALSE)
    \/ moved_log
    \/ moved_store
    \/ moved_map
    \/ moved_set
    \/ moved_watch
    \/ moved_sched
    \/ moved_open
    \/ access_event("/a/x", TRUE)
    \/ opened_log
    \/ Maintenance
    \/ refresh_watch
    \/ refresh_sched
    \/ refresh_open

InitEither == \E have_inotify \in BOOLEAN : Boot(LifeHorizon, FewHits, have_inotify)

SpecEither == InitEither /\ [][NextEither]_vars

\* ------------------------------------------------------- kinds of alerts

\* One decoy is created anew, opened, deleted and renamed while the
\* maintenance loop ticks, with resets from the console.
NextKinds ==
    \/ TickIdle
    \/ on_created("/a/x", FALSE)
    \/ buffer_modified
    \/ on_deleted("/a/x", FALSE)
    \/ deleted_log
    \/ access_event("/a/x", TRUE)
    \/ opened_log
    \/ on_moved("/a/x", "/b/z", FALSE)
    \/ moved_log
    \/ moved_store
    \/ moved_map
    \/ moved_set
    \/ moved_watch
    \/ moved_sched
    \/ moved_open
    \/ Maintenance
    \/ refresh_watch
    \/ reset_token_status(1)

SpecKinds == InitLifecycle /\ [][NextKinds]_vars

\* ------------------------------------------------ pairs of token and kind

\* The two decoys of /a are deleted and opened at any times.
NextPairs ==
    \/ Advance
    \/ \E p \in {"/a/x", "/a/y"} : on_deleted(p, FALSE)
    \/ deleted_log
    \/ \E p \in {"/a/x", "/a/y"} : access_event(p, TRUE)
    \/ opened_log

SpecPairs == InitShort /\ [][NextPairs]_vars

\* ----------------------------------------------------- ignored events

\* The observer delivers events of directories and of files, of a decoy
\* that is removed from the console in the course of the run.
NextIgnored ==
    \/ TickIdle
    \/ delete_token(1)
    \/ \E d \in BOOLEAN : on_created("/a/x", d)
    \/ \E d \in BOOLEAN : on_modified("/a/x", d)
    \/ buffer_modified
    \/ \E d \in BOOLEAN : on_deleted("/a/x", d)
    \/ deleted_log
    \/ \E d \in BOOLEAN : on_moved("/a/x", "/b/z", d)
    \/ moved_log
    \/ moved_store
    \/ moved_map
    \/ moved_set
    \/ moved_watch
    \/ moved_sched
    \/ moved_open
    \/ moved_dest
    \/ Maintenance
    \/ refresh_watch

SpecIgnored == InitLifecycle /\ [][NextIgnored]_vars

\* ---------------------------------------------------------------- claims

IsModifiedClass(h) == h.kind \in {"created", "modified", "saved"}

\* The modified-class hits classified for token t, in order.
ModHits(t) == SelectSeq(hist, LAMBDA h : h.tok = t /\ IsModifiedClass(h))

\* The 'modified' alerts recorded for token t, in order.
ModAlerts(t) ==
    SelectSeq(db_events, LAMBDA e : e.token_id = t /\ e.event_type = "modified")

\* Every gap between consecutive hits is under the quiet period and the
\* span from the first to the last is under the maximum window.
WithinWindows(s) ==
    /\ s # <<>>
    /\ \A i \in 1..(Len(s) - 1) : s[i + 1].t - s[i].t < MOD_QUIET_SECONDS
    /\ s[Len(s)].t - s[1].t < MOD_MAX_WINDOW_SECONDS

\* Nothing of token t is still on its way to the events table.
Settled(t) ==
    /\ ~HasBurst(mod_bursts, t)
    /\ ~HasBurst(main.to_flush, t)
    /\ ~(obs.pc = "buffer" /\ obs.tok = t)

\* C1: a sequence of modified-class hits on a token with every gap under
\* 1.25s and a span under 3.0s is recorded as exactly one 'modified' alert
\* whose burst count is the number of hits, whatever the interleaving of
\* the observer thread and the maintenance tick.
C1_OneAlertPerBurst ==
    \A t \in Ids :
        WithinWindows(ModHits(t)) =>
            /\ Len(ModAlerts(t)) <= 1
            /\ \A i \in 1..Len(ModAlerts(t)) :
                   ModAlerts(t)[i].details.count = Len(ModHits(t))
            /\ Settled(t) => Len(ModAlerts(t)) = 1

\* The hits that went into burst record b: those of its token from its
\* first hit on.
BurstHits(b) == SelectSeq(ModHits(b.tok), LAMBDA h : h.t >= b.first)

\* Hits on the token of b have kept arriving with gaps under the quiet
\* period, up to now.
KeepArriving(b) ==
    /\ \A i \in 1..(Len(BurstHits(b)) - 1) :
           BurstHits(b)[i + 1].t - BurstHits(b)[i].t < MOD_QUIET_SECONDS
    /\ clock - b.last < MOD_QUIET_SECONDS

ScanStep == main.pc = "flush_scan" /\ main'.pc = "flush_emit"

StoreStep == obs.pc = "buffer" /\ obs'.pc = "idle"

InSeq(x, s) == \E i \in 1..Len(s) : s[i] = x

IsDeletedKind(x) == x.kind = "deleted"

IsDeletedEvent(e) == e.event_type = "deleted"

\* The 'deleted' hits of token t that on_deleted classified, in order.
DelHits(t) == SelectSeq(hist, LAMBDA h : h.tok = t /\ IsDeletedKind(h))

\* The 'deleted' alerts recorded for token t.
DelAlerts(t) == SelectSeq(db_events, LAMBDA e : e.token_id = t /\ IsDeletedEvent(e))

\* How many of the hits s[from..to] went on to an alert.
PassedIn(s, from, to) == Cardinality({k \in from..to : s[k].passed})

\* Every hit that went on to an alert has recorded it, or is about to.
AlertsMatchHits(t) ==
    Len(DelAlerts(t)) + (IF obs.pc = "deleted_log" /\ obs.tok = t THEN 1 ELSE 0)
        = PassedIn(DelHits(t), 1, Len(DelHits(t)))

\* C3, as stated: of two successive 'deleted' hits of a token, exactly one
\* records an alert when they are less than 0.75s apart, and both do when
\* they are more than 0.75s apart, for the first pair and for later ones.
C3_PairByGap ==
    \A t \in Ids :
        /\ AlertsMatchHits(t)
        /\ \A i \in 1..(Len(DelHits(t)) - 1) :
              LET s == DelHits(t)
                  gap == s[i + 1].t - s[i].t
              IN  /\ gap < DEBOUNCE_WINDOW => PassedIn(s, i, i + 1) = 1
                  /\ gap > DEBOUNCE_WINDOW => PassedIn(s, i, i + 1) = 2

\* C3, amended: a 'deleted' hit records an alert exactly when it is the
\* token's first 'deleted' hit or comes 0.75s or more after the token's
\* last 'deleted' hit that recorded an alert; so of two successive hits
\* the first of which recorded an alert, one records an alert when they
\* are less than 0.75s apart and both when they are 0.75s or more apart.
C3_GapFromLastAlert ==
    \A t \in Ids :
        /\ AlertsMatchHits(t)
        /\ \A i \in 1..Len(DelHits(t)) :
              LET s == DelHits(t)
                  before == {j \in 1..(i - 1) : s[j].passed}
              IN  IF before = {}
                  THEN s[i].passed
                  ELSE LET j == CHOOSE j \in before : \A k \in before : k <= j
                       IN  /\ s[i].passed <=> s[i].t - s[j].t >= DEBOUNCE_WINDOW
                           /\ (j = i - 1 /\ s[i].t - s[j].t < DEBOUNCE_WINDOW)
                                  => PassedIn(s, j, i) = 1
                           /\ (j = i - 1 /\ s[i].t - s[j].t >= DEBOUNCE_WINDOW)
                                  => PassedIn(s, j, i) = 2

\* A first hit that alerts, a second inside its window that is dropped, and
\* a third that alerts although it is less than 0.75s after the second;
\* both alerts are recorded.
C3_Witness ==
    \E t \in Ids :
        LET s == DelHits(t) IN
        /\ obs.pc = "idle"
        /\ Len(s) = 3
        /\ s[1].passed /\ ~s[2].passed /\ s[3].passed
        /\ s[3].t - s[2].t < DEBOUNCE_WINDOW
        /\ s[3].t - s[1].t >= DEBOUNCE_WINDOW
        /\ Len(DelAlerts(t)) = 2

\* ----------------------------------------------------------------- renames

LastHit == hist[Len(hist)]

IsRenamedEvent(e) == e.event_type = "renamed"

\* C4: when on_moved has returned from a rename whose source was a tracked
\* token and whose destination no other token holds, whether or not the
\* rename fell into the 0.75s 'renamed' window, the token's stored path is
\* the destination and the registry maps the destination to the token.
C4_RenameMovesToken ==
    (/\ obs.pc = "idle"
     /\ hist # <<>>
     /\ LastHit.kind = "renamed"
     /\ ~PathTaken(db_tokens, LastHit.tok, LastHit.path))
        => /\ db_tokens[LastHit.tok].path = LastHit.path
           /\ token_map[LastHit.path].id = LastHit.tok

\* The hits the accumulator holds for a token.
HitsOf(bursts, tok) == IF HasBurst(bursts, tok) THEN BurstOf(bursts, tok).count ELSE 0

\* The records of the accumulator that belong to other tokens.
OthersOf(bursts, tok) == SelectSeq(bursts, LAMBDA b : b.tok # tok)

\* C5: the steps of on_moved for an untracked source (the atomic save)
\* record no alert, leave the registry, the stored paths and the debounce
\* times alone, go on to the buffer exactly when the destination is
\* tracked, and the buffer step adds exactly one hit to the destination
\* token's record, creating it with count 1 if absent.
C5_AtomicSaveBuffersOneHit ==
    [][(obs.kind = "saved" \/ obs'.kind = "saved") =>
          /\ UNCHANGED <<token_map, db_tokens, db_events, siem, last_seen>>
          /\ obs.pc = "moved_dest" /\ obs' # obs =>
                IF token_map[obs.path] = NoTok THEN obs' = Idle
                ELSE /\ obs'.pc = "buffer" /\ obs'.kind = "saved"
                     /\ obs'.tok = token_map[obs.path].id
                     /\ UNCHANGED mod_bursts
          /\ obs.pc = "buffer" /\ obs' # obs =>
                /\ obs' = Idle
                /\ HitsOf(mod_bursts', obs.tok) = HitsOf(mod_bursts, obs.tok) + 1
                /\ OthersOf(mod_bursts', obs.tok) = OthersOf(mod_bursts, obs.tok)
                /\ Len(mod_bursts') = Len(mod_bursts)
                                         + (IF HasBurst(mod_bursts, obs.tok) THEN 0 ELSE 1)
      ]_vars

\* An atomic save onto a token whose record already held a hit has returned:
\* the record holds one more, no 'renamed' alert exists, and registry and
\* store are as they were at startup.
C5_Witness ==
    /\ obs.pc = "idle"
    /\ hist # <<>>
    /\ LastHit.kind = "saved"
    /\ HitsOf(mod_bursts, LastHit.tok) = 2
    /\ SelectSeq(db_events, IsRenamedEvent) = <<>>
    /\ token_map = load_tokens(InitTokens)
    /\ db_tokens = InitTokens

\* ------------------------------------------------------- lifecycle status

\* The alert a step of write_event has added to the stream.
NewAlert == siem'[Len(siem')]

\* C6: a step of write_event leaves the rows of the other tokens alone and
\* sets the row of its token from any status: kind 'deleted' to 'missing',
\* kinds 'modified', 'renamed' and 'opened' to 'triggered', kinds 'created'
\* and 'note' to the status it had; last_event_at becomes the time of the
\* alert and nothing else of the row changes.
C6_StatusByKind ==
    [][Len(siem') = Len(siem) + 1 =>
          LET t == NewAlert.token_id
              k == NewAlert.action
              old == db_tokens[t]
          IN  /\ \A i \in Ids \ {t} : db_tokens'[i] = db_tokens[i]
              /\ old.status \in Statuses
              /\ db_tokens'[t] =
                    [old EXCEPT !.last_event_at = NewAlert.timestamp,
                                !.status =
                                    CASE k = "deleted" -> "missing"
                                      [] k \in {"modified", "renamed", "opened"}
                                             -> "triggered"
                                      [] k \in {"created", "note"} -> old.status]
      ]_vars

\* A token that a 'deleted' alert set to 'missing', a 'note' alert left
\* 'missing' and a 'modified' alert then set to 'triggered'.
C6_Witness ==
    \E t \in Ids :
        /\ Len(siem) = 3
        /\ \A i \in 1..3 : siem[i].token_id = t
        /\ siem[1].action = "deleted"
        /\ siem[2].action = "note"
        /\ siem[3].action = "modified"
        /\ db_tokens[t].status = "triggered"
        /\ db_tokens[t].last_event_at = siem[3].timestamp
        /\ siem[3].timestamp > siem[1].timestamp

\* The step of OpenAccessWatcher.run that records an 'opened' alert.
OpenedStep == opn.pc = "opened_log" /\ opn'.pc # "opened_log"

\* C7, as stated: recording an 'opened' alert for a tracked token leaves
\* the token's status unchanged.
C7_OpenedKeepsStatus ==
    [][OpenedStep => db_tokens'[opn.tok].status = db_tokens[opn.tok].status]_vars

\* C7, amended: recording an 'opened' alert for a tracked token sets the
\* token's status to 'triggered', whatever it was, and its last_event_at
\* to the time of the alert; the alert is appended to the events.
C7_OpenedTriggers ==
    [][OpenedStep =>
          /\ db_tokens'[opn.tok] = [db_tokens[opn.tok] EXCEPT
                                        !.status = "triggered",
                                        !.last_event_at = now_iso_utc(clock)]
          /\ Len(db_events') = Len(db_events) + 1
          /\ db_events'[Len(db_events')].event_type = "opened"
          /\ db_events'[Len(db_events')].token_id = opn.tok
      ]_vars

\* A decoy that was deleted, hence 'missing', and then opened: the last
\* event is the 'opened' alert and the status is 'triggered'.
C7_Witness ==
    /\ opn.pc = "idle"
    /\ Len(db_events) = 2
    /\ db_events[1].event_type = "deleted"
    /\ db_events[2].event_type = "opened"
    /\ db_events[2].token_id = db_events[1].token_id
    /\ db_tokens[db_events[2].token_id].status = "triggered"

\* A step of reset_token_status for token t.
ResetStep(t) ==
    /\ admin' = admin + 1
    /\ Len(db_events') = Len(db_events) + 1
    /\ db_events'[Len(db_events')].event_type = "note"
    /\ db_events'[Len(db_events')].token_id = t

\* C8: no step of the daemon sets a status to 'ok': a token that is
\* 'missing' or 'triggered' stays 'missing' or 'triggered' at every step
\* but one of reset_token_status for it, which sets 'ok' and appends a
\* 'note' event.
C8_OkOnlyByReset ==
    [][\A t \in Ids :
          (db_tokens[t].live /\ db_tokens'[t].live) =>
              /\ ResetStep(t) => db_tokens'[t].status = "ok"
              /\ (db_tokens[t].status \in {"missing", "triggered"} /\ ~ResetStep(t))
                     => db_tokens'[t].status \in {"missing", "triggered"}
              /\ (db_tokens[t].status # "ok" /\ db_tokens'[t].status = "ok")
                     => ResetStep(t) /\ UNCHANGED <<siem, main, obs, opn>>
      ]_vars

\* A decoy that was deleted, then opened, and then reset from the console:
\* it is 'ok', and the 'note' event follows the two alerts.
C8_Witness ==
    /\ Len(db_events) = 3
    /\ \A i \in 1..3 : db_events[i].token_id = 1
    /\ db_events[1].event_type = "deleted"
    /\ db_events[2].event_type = "opened"
    /\ db_events[3].event_type = "note"
    /\ db_tokens[1].status = "ok"
    /\ admin = 1

\* ------------------------------------------------------------ the refresh

\* The step of refresh_tokens_from_db that compares the two maps.
CompareStep == main.pc = "refresh_swap" /\ main'.pc # "refresh_swap"

\* C9: a refresh whose freshly loaded map equals the live registry returns
\* at the comparison: the registry, the watched directories, the
\* schedules of the observer and the directories of the access watcher
\* are unchanged and no "Token refresh" line is printed, however many
\* times it is repeated.
C9_NoOpRefresh ==
    [][(CompareStep /\ main.new_map = token_map) =>
          /\ UNCHANGED <<token_map, watched_dirs, obs_sched, dir_to_wd, out>>
          /\ main'.pc = "sleep"
          /\ main'.last_refresh = main.now
      ]_vars

\* A refresh that found a changed store has printed its line, and a later
\* refresh that found the store equal to the registry has returned: still
\* one line, and one schedule at most per directory.
C9_Witness ==
    /\ main.pc = "sleep"
    /\ out = 1
    /\ main.last_refresh >= Epoch + TICK_SLEEP + TOKEN_REFRESH_SECONDS
    /\ token_map = load_tokens(db_tokens)
    /\ token_map # load_tokens(InitTokens)
    /\ \A d \in Dirs : obs_sched[d] <= 1

\* ----------------------------------------------------------- store failures

EmitFails == fault = "emit" /\ fault' = "none"

\* C12: when the append to the alert stream fails inside emit_jsonl, no
\* error reaches the caller of write_event (the maintenance loop goes on,
\* the access watcher lives), and the event row and the status update of
\* the same call stay in the store.
C12_EmitFailureContained ==
    [][EmitFails =>
          /\ Len(db_events') = Len(db_events) + 1
          /\ LET e == db_events'[Len(db_events')] IN
                 /\ db_tokens' = UpdateStatus(db_tokens, e.token_id, e.event_type, e.ts)
                 /\ db_tokens'[e.token_id].status = "triggered"
          /\ siem' = siem
          /\ main'.exit = main.exit
          /\ main.pc = "flush_emit" => main'.pc = "flush_emit"
          /\ opn'.pc = "dead" => opn.pc = "dead"
          /\ opn' # opn => opn.pc = "opened_log" /\ opn'.pc \in {"idle", "exited"}
      ]_vars

\* Two alerts are in the store, the decoy is 'triggered', the stream has
\* only one of them, and both the loop and the access watcher run.
C12_Witness ==
    /\ Len(db_events) = 2
    /\ Len(siem) = 1
    /\ db_tokens[1].status = "triggered"
    /\ fault = "none"
    /\ Running
    /\ opn.pc = "idle"

\* ------------------------------------------------------ order of alerts

\* The alerts of the daemon for token t, in the order of the store.
AlertsOf(t) ==
    SelectSeq(db_events, LAMBDA e : e.token_id = t
                                    /\ e.event_type \in DebouncedTypes \cup {"modified"})

\* The hits of token t that were let through, in the order in which the
\* callbacks classified them.
PassedOf(t) == SelectSeq(hist, LAMBDA h : h.tok = t /\ h.passed)

\* The kind of alert a hit leads to: a buffered hit is flushed as
\* 'modified'.
AlertKind(h) == IF h.kind \in DebouncedTypes THEN h.kind ELSE "modified"

\* No callback is under way and no burst waits for its flush.
Quiescent ==
    /\ obs.pc = "idle"
    /\ opn.pc = "idle"
    /\ mod_bursts = <<>>
    /\ main.to_flush = <<>>

\* C13: the alerts of one token are appended in the order in which their
\* hits were classified, whichever thread records them: once every hit
\* has been recorded, the last alert of a token is that of its last hit.
C13_AlertsInHitOrder ==
    Quiescent =>
        \A t \in Ids :
            (PassedOf(t) # <<>> /\ AlertsOf(t) # <<>>) =>
                AlertsOf(t)[Len(AlertsOf(t))].event_type
                    = AlertKind(PassedOf(t)[Len(PassedOf(t))])

\* ------------------------------------------------- lookups of the registry

\* The keys of the registry that hold token t.
KeysOf(t) == {p \in Paths : token_map[p].id = t}

\* on_moved is past its UPDATE of the stored path and has not returned.
RenameUnderWay ==
    obs.pc \in {"moved_map", "moved_set", "moved_watch", "moved_sched", "moved_open"}

\* What a reader may see: no token under two keys, and the token of a
\* rename under way under its source or its destination, not under both
\* and not under neither.
WholeMap ==
    /\ \A t \in Ids : Cardinality(KeysOf(t)) <= 1
    /\ RenameUnderWay => Cardinality(KeysOf(obs.tok) \cap {obs.src, obs.path}) = 1

\* C14: a lookup of the registry that runs beside a refresh swap or a
\* rename's move of an entry sees the whole mapping of before or of after:
\* whenever _map_lock is free the registry holds the renamed token under
\* its source or its destination, never under both or neither, and every
\* hit is found while the lock is free.
C14_LookupsSeeWholeMap ==
    /\ [](locks["map"] = "none" => WholeMap)
    /\ [][Len(hist') > Len(hist) =>
              /\ locks["map"] = "none"
              /\ WholeMap
              /\ Cardinality(KeysOf(hist'[Len(hist')].tok)) = 1
        ]_vars

\* A rename has removed the source key and not yet set the destination,
\* while a refresh with a different registry is about to swap.
C14_Witness ==
    /\ obs.pc = "moved_set"
    /\ locks["map"] = "obs"
    /\ KeysOf(obs.tok) = {}
    /\ main.pc = "refresh_swap"
    /\ main.new_map # token_map

\* ------------------------------------------------- store writes and locks

\* A step that writes the store or the alert stream.
StoreWrite == db_events' # db_events \/ db_tokens' # db_tokens \/ siem' # siem

\* The thread holds none of the locks, before the step and after it.
NoLockOf(thread) ==
    \A l \in Locks : locks[l] # thread /\ locks'[l] # thread

\* C19: no write to the store (the INSERT and the UPDATE of write_event,
\* the path UPDATE of on_moved) and no append to the alert stream is made
\* by a thread that holds the burst lock, the map lock or the watch lock.
C19_NoWriteUnderLock ==
    [][StoreWrite =>
          /\ main' # main => NoLockOf("main")
          /\ obs' # obs => NoLockOf("obs")
          /\ opn' # opn => NoLockOf("opn")
      ]_vars

\* The observer thread is inside `with self._map_lock` of on_moved after
\* its 'renamed' alert and its path UPDATE, and a burst has been flushed.
C19_Witness ==
    /\ obs.pc = "moved_set"
    /\ locks["map"] = "obs"
    /\ db_tokens[obs.tok].path = obs.path
    /\ \E i \in 1..Len(db_events) : db_events[i].event_type = "renamed"
    /\ \E i \in 1..Len(db_events) : db_events[i].event_type = "modified"

\* ------------------------------------------------ the debounce table

\* The thread whose step it is.
Actor == IF obs' # obs THEN "obs" ELSE IF opn' # opn THEN "opn" ELSE "main"

\* The thread that checks a kind: the observer's callbacks check 'deleted'
\* and 'renamed', OpenAccessWatcher.run checks 'opened'.
CheckerOf(kind) == IF kind = "opened" THEN "opn" ELSE "obs"

\* The window of a kind.
WindowOf(kind) == IF kind = "opened" THEN OPENED_WINDOW ELSE DEBOUNCE_WINDOW

FlushedAlerts == SelectSeq(db_events, LAMBDA e : e.event_type = "modified")

\* C17: once main() has left its loop, by the stop signal or otherwise,
\* flush_modified_bursts is not called again: main() is at no step of the
\* flush, no 'modified' alert is recorded and no record leaves _mod_bursts;
\* and the access watcher is told to stop before the observer is.
C17_NoFlushAfterStop ==
    /\ [](~Running => main.pc \notin {"sleep", "flush_scan", "flush_emit"})
    /\ [](Told("observer") => stops = <<"access", "observer">>)
    /\ [][~Running =>
              /\ FlushedAlerts' = FlushedAlerts
              /\ Len(mod_bursts') >= Len(mod_bursts)
        ]_vars

\* main() has ended on the stop signal with a burst in _mod_bursts that
\* was never recorded, both watchers told to stop in their order.
C17_Witness ==
    /\ main.pc = "stopped"
    /\ mod_bursts # <<>>
    /\ FlushedAlerts = <<>>
    /\ stops = <<"access", "observer">>

\* C18: after stop() is called on the access watcher its run loop exits
\* in every execution, from the read with its timeout, from the back-off
\* sleep and from the handling of an event, whatever lock another thread
\* holds.
C18_AccessWatcherExits == Told("access") ~> opn.pc = "exited"

\* stop() has been called while the access watcher waits in _lookup_token
\* for _map_lock, which the observer thread holds in on_moved.
C18_Witness ==
    /\ Told("access")
    /\ opn.pc = "lookup"
    /\ locks["map"] = "obs"

\* ---------------------------------------------------------------- watches

C15_WatchesOnlyGrow ==
    [][/\ watched_dirs \subseteq watched_dirs'
       /\ dir_to_wd \subseteq dir_to_wd'
       /\ \A d \in Dirs : obs_sched'[d] >= obs_sched[d]
      ]_vars

\* Both decoys of /a are gone from the store and a refresh has taken them
\* out of the registry, a new directory has been added, and /a is still
\* watched by both watchers.
C15_Witness ==
    /\ "/a" \notin DirsOf(token_map)
    /\ out >= 1
    /\ watched_dirs = {"/a", "/b"}
    /\ dir_to_wd = {"/a", "/b"}
    /\ obs_sched["/a"] = 1

\* C16: every directory has at most one schedule on the observer, the one
\* watched_dirs records, and the access watcher holds it at most once,
\* under the directories it was given at startup or was told to add.
C16_OneHandlePerDir ==
    /\ \A d \in Dirs : obs_sched[d] = (IF d \in watched_dirs THEN 1 ELSE 0)
    /\ dir_to_wd \subseteq watched_dirs
    /\ (locks["watch"] = "obs") = (obs.pc = "moved_sched")
    /\ (locks["watch"] = "main") = (main.pc = "refresh_sched")

\* The observer thread holds _watch_lock to schedule /b for a rename while
\* the refresh in main() waits to do the same for a decoy planted there.
C16_Witness ==
    /\ obs.pc = "moved_sched"
    /\ Parent(obs.path) = "/b"
    /\ main.pc = "refresh_watch"
    /\ main.added # <<>>
    /\ Parent(Head(main.added)) = "/b"
    /\ NeedsWatch(Head(main.added))

\* ------------------------------------------------ registry and watches

\* No refresh is between its swap and its return, and no callback of the
\* observer is under way.
NoUpdateUnderWay ==
    /\ main.pc \notin {"refresh_swap", "refresh_watch", "refresh_sched", "refresh_open"}
    /\ obs.pc \in {"idle", "dead"}

\* C21: whenever no refresh and no rename is in progress, the parent
\* directory of every path of the live registry is in the watched set and
\* has its handle on the observer.
C21_RegistryDirsWatched ==
    NoUpdateUnderWay =>
        \A d \in DirsOf(token_map) : d \in watched_dirs /\ obs_sched[d] >= 1

\* ------------------------------------------------- every hit is flushed

RECURSIVE SumCount(_)
SumCount(alerts) ==
    IF alerts = <<>> THEN 0
    ELSE Head(alerts).details.count + SumCount(Tail(alerts))

\* The hits of token t that _buffer_modified has stored so far.
StoredHits(t) ==
    Len(ModHits(t)) - (IF obs.pc = "buffer" /\ obs.tok = t THEN 1 ELSE 0)

\* The hits of token t counted in the 'modified' alerts of the store.
AlertedHits(t) == SumCount(ModAlerts(t))

\* The maximum window and one turn of the loop still fit before the end
\* of the time the model covers.
TimeToFlush ==
    clock + MOD_MAX_WINDOW_SECONDS + TICK_SLEEP <= Epoch + scope.horizon

\* C22: while the maintenance loop keeps ticking, every hit stored in a
\* burst record is in the end counted in a 'modified' alert, also when
\* hits on the token keep arriving less than the quiet period apart.
C22_EveryHitFlushed ==
    \A n \in 1..MaxHits :
        (StoredHits(1) >= n /\ TimeToFlush) ~> (AlertedHits(1) >= n)

\* Hits less than the quiet period apart over more than the maximum
\* window have been recorded in one alert while the next hit was less
\* than a quiet period away.
C22_Witness ==
    /\ Len(ModAlerts(1)) = 1
    /\ Len(ModHits(1)) = AlertedHits(1) + 1
    /\ AlertedHits(1) >= 3
    /\ \A i \in 1..(Len(ModHits(1)) - 1) :
           ModHits(1)[i + 1].t - ModHits(1)[i].t < MOD_QUIET_SECONDS
    /\ ModHits(1)[1].t + MOD_MAX_WINDOW_SECONDS + TICK_SLEEP <= Epoch + scope.horizon

\* ------------------------------------------------------ one flush call

\* quiet or too_long for the clock the flush has read.
ReadyAtScan(b) ==
    \/ main.now - b.last >= MOD_QUIET_SECONDS
    \/ main.now - b.first >= MOD_MAX_WINDOW_SECONDS

\* One turn of the loop over to_flush.
EmitStep == main.pc = "flush_emit" /\ main.to_flush # <<>> /\ main' # main

\* C23: one call of flush_modified_bursts takes out of _mod_bursts exactly
\* the records that are ready (now - last >= 1.25s or now - first >= 3.0s)
\* and records exactly one 'modified' alert for each of them; the records
\* that are not ready stay as they are and give no alert; and every record
\* of _mod_bursts has count >= 1 and first <= last.
C23_FlushTakesTheReady ==
    /\ [](\A i \in 1..Len(mod_bursts) :
              mod_bursts[i].count >= 1 /\ mod_bursts[i].first <= mod_bursts[i].last)
    /\ [][ScanStep =>
              /\ Len(main'.to_flush) + Len(mod_bursts') = Len(mod_bursts)
              /\ \A i \in 1..Len(mod_bursts) :
                     LET b == mod_bursts[i] IN
                     IF ReadyAtScan(b)
                     THEN InSeq(b, main'.to_flush) /\ ~HasBurst(mod_bursts', b.tok)
                     ELSE InSeq(b, mod_bursts') /\ ~HasBurst(main'.to_flush, b.tok)
        ]_vars
    /\ [][EmitStep =>
              LET b == Head(main.to_flush) IN
              /\ main'.to_flush = Tail(main.to_flush)
              /\ Len(db_events') = Len(db_events) + 1
              /\ db_events'[Len(db_events')].event_type = "modified"
              /\ db_events'[Len(db_events')].token_id = b.tok
              /\ db_events'[Len(db_events')].details.count = b.count
              /\ UNCHANGED mod_bursts
        ]_vars
    /\ [][(\E t \in Ids : Len(ModAlerts(t)') > Len(ModAlerts(t))) => EmitStep]_vars
    /\ [][(main.pc = "flush_emit" /\ main'.pc # "flush_emit") =>
              main.to_flush = <<>>]_vars

\* A flush has found the record of one decoy ready and recorded its alert,
\* and has left the record of the other decoy, which was not ready.
C23_Witness ==
    /\ main.pc = "flush_emit"
    /\ main.to_flush = <<>>
    /\ Len(ModAlerts(1)) = 1
    /\ ModAlerts(2) = <<>>
    /\ ~HasBurst(mod_bursts, 1)
    /\ HasBurst(mod_bursts, 2)
    /\ BurstOf(mod_bursts, 2).last <= main.now
    /\ BurstOf(mod_bursts, 2).count = 2

\* ----------------------------------------------------- a rename's alert

\* The 'renamed' alerts of the stream.
RenamedAlerts == SelectSeq(siem, LAMBDA e : e.action = "renamed")

\* The 'renamed' hits that passed the debounce.
RenamedHits == SelectSeq(hist, LAMBDA h : h.kind = "renamed" /\ h.passed)

\* on_moved returns from its 'renamed' branch.
RenameReturns ==
    /\ obs.pc \in {"moved_watch", "moved_open"}
    /\ obs'.pc = "idle"

\* C24: a rename of a tracked source that passes the debounce records one
\* 'renamed' alert, with the destination as its path and the source and
\* the destination in its detail; and when on_moved returns, the parent
\* directory of the destination is watched.
C24_RenameAlertAndWatch ==
    /\ [](Len(RenamedAlerts) =
              Len(RenamedHits) - (IF obs.pc = "moved_log" THEN 1 ELSE 0))
    /\ [][(obs.pc = "moved_log" /\ obs'.pc = "moved_store") =>
              /\ Len(siem') = Len(siem) + 1
              /\ siem'[Len(siem')].action = "renamed"
              /\ siem'[Len(siem')].token_id = obs.tok
              /\ siem'[Len(siem')].path = obs.path
              /\ siem'[Len(siem')].details.path = obs.src
              /\ siem'[Len(siem')].details.to = obs.path
              /\ db_events'[Len(db_events')].event_type = "renamed"
              /\ db_events'[Len(db_events')].details = siem'[Len(siem')].details
        ]_vars
    /\ [][RenameReturns =>
              /\ Parent(obs.path) \in watched_dirs'
              /\ obs_sched'[Parent(obs.path)] = 1
        ]_vars

\* A decoy of /a has been renamed into /b, which was not watched before:
\* the alert names /a/x and /b/z, on_moved has returned and /b is watched.
C24_Witness ==
    /\ obs.pc = "idle"
    /\ Len(RenamedAlerts) = 1
    /\ RenamedAlerts[1].path = "/b/z"
    /\ RenamedAlerts[1].details.path = "/a/x"
    /\ "/b" \notin DirsOf(load_tokens(InitTokens))
    /\ "/b" \in watched_dirs
    /\ obs_sched["/b"] = 1
    /\ "/b" \in dir_to_wd
    /\ gone = {}
    /\ admin = 0

\* ------------------------------------------- hits on a removed path

\* Token t is under no key of the registry, and nothing of it that was
\* classified before is still on its way.
Forgotten(t) ==
    /\ KeysOf(t) = {}
    /\ ~(obs.pc # "idle" /\ obs.tok = t)
    /\ ~(opn.pc # "idle" /\ opn.tok = t)
    /\ ~HasBurst(mod_bursts, t)
    /\ ~HasBurst(main.to_flush, t)

\* C25: once a refresh has taken a path out of the live registry, the
\* events on that path, of whatever kind, give no hit: for its token no
\* alert is recorded, no burst record and no debounce entry is made and
\* no status is changed by the daemon.
C25_RemovedPathIsSilent ==
    [][\A t \in Ids :
          (Forgotten(t) /\ admin' = admin) =>
              /\ \A k \in DebouncedTypes : last_seen'[<<t, k>>] = last_seen[<<t, k>>]
              /\ ~HasBurst(mod_bursts', t)
              /\ db_tokens'[t] = db_tokens[t]
              /\ SelectSeq(hist', LAMBDA h : h.tok = t)
                     = SelectSeq(hist, LAMBDA h : h.tok = t)
              /\ SelectSeq(siem', LAMBDA e : e.token_id = t)
                     = SelectSeq(siem, LAMBDA e : e.token_id = t)
              /\ SelectSeq(db_events', LAMBDA e : e.token_id = t)
                     = SelectSeq(db_events, LAMBDA e : e.token_id = t)
              /\ ~(obs'.pc # "idle" /\ obs'.tok = t)
              /\ ~(opn'.pc # "idle" /\ opn'.tok = t)
      ]_vars

\* The decoy /a/x was removed from the console and a refresh has taken it
\* out of the registry; its directory is still watched by both watchers,
\* time has passed since, and the daemon has recorded nothing for it.
C25_Witness ==
    /\ ~db_tokens[1].live
    /\ token_map["/a/x"] = NoTok
    /\ Forgotten(1)
    /\ ObserverSees("/a/x")
    /\ "/a" \in dir_to_wd
    /\ out >= 1
    /\ clock > main.last_refresh
    /\ main.last_refresh > 0
    /\ SelectSeq(siem, LAMBDA e : e.token_id = 1) = <<>>
    /\ \A k \in DebouncedTypes : last_seen[<<1, k>>] = 0

\* What an ignored event must leave alone: the registry, the bursts, the
\* debounce table, the watches, the store and the alert stream.
IgnoredFrame ==
    UNCHANGED <<token_map, mod_bursts, last_seen, watchVars, storeVars, siem, hist>>

DirectoryEvent ==
    \/ \E p \in RawPaths : \/ on_created(p, TRUE)
                           \/ on_modified(p, TRUE)
                           \/ on_deleted(p, TRUE)
    \/ \E p, q \in RawPaths : on_moved(p, q, TRUE)

UntrackedFileEvent ==
    \E p \in RawPaths : /\ token_map[Resolve(p)] = NoTok
                        /\ \/ on_created(p, FALSE)
                           \/ on_modified(p, FALSE)
                           \/ on_deleted(p, FALSE)

UntrackedRename ==
    \E p, q \in RawPaths : /\ token_map[Resolve(p)] = NoTok
                           /\ token_map[Resolve(q)] = NoTok
                           /\ on_moved(p, q, FALSE)

UntrackedDest ==
    /\ obs.pc = "moved_dest"
    /\ token_map[obs.path] = NoTok
    /\ moved_dest

\* C26: an event of a directory, and an event of a file whose path (for a
\* rename: neither the source nor the destination) is not in the live
\* registry, leaves the registry, the bursts, the debounce table, the
\* watches and the store unchanged and records no alert; the callback
\* returns without having started anything.
C26_IgnoredEventsChangeNothing ==
    [][ /\ DirectoryEvent => UNCHANGED vars
        /\ UntrackedFileEvent => UNCHANGED vars
        /\ UntrackedRename => IgnoredFrame /\ obs'.pc = "moved_dest"
        /\ UntrackedDest => IgnoredFrame /\ obs' = Idle ]_vars

TrackedFileEvent ==
    \E p \in RawPaths :
        /\ token_map[Resolve(p)] # NoTok
        /\ on_created(p, FALSE) \/ on_modified(p, FALSE) \/ on_deleted(p, FALSE)

\* C26 as worded, for a path that is in the live registry: the create,
\* modify or delete event of a decoy's file changes nothing.
C26_TrackedEventsChangeNothing == [][TrackedFileEvent => UNCHANGED vars]_vars

\* The rename of a file that is no decoy (any more), to a path that is
\* none, has been looked up on both sides after the registry dropped it.
C26_Witness ==
    /\ obs.pc = "moved_dest"
    /\ token_map[obs.src] = NoTok
    /\ token_map[obs.path] = NoTok
    /\ ~db_tokens[1].live
    /\ main.last_refresh > 0

LevelOf(sens) ==
    IF sens = "low" THEN "low"
    ELSE IF sens = "medium" THEN "medium"
    ELSE IF sens = "high" THEN "high"
    ELSE "low"

NumberOf(level) ==
    IF level = "low" THEN 3 ELSE IF level = "medium" THEN 7 ELSE 12

\* C27: every record of the alert stream carries as its level the
\* sensitivity of its token (the one the registry held when the hit was
\* classified, for a flushed burst the one of its last hit; a token keeps
\* the sensitivity it was planted with) and the severity 3 for low, 7 for
\* medium, 12 for high; a sensitivity outside the three is recorded with
\* level 'low' and severity 3.
C27_LevelIsSensitivity ==
    \A i \in 1..Len(siem) :
        LET e == siem[i] IN
        /\ db_tokens[e.token_id].live
        /\ e.sensitivity = db_tokens[e.token_id].sensitivity
        /\ e.level = LevelOf(e.sensitivity)
        /\ e.severity = NumberOf(e.level)
        /\ e.sensitivity \notin Sensitivities => e.level = "low" /\ e.severity = 3

\* The stream holds the flushed burst of a decoy whose sensitivity is
\* none of the three, and a 'deleted' or 'opened' record of it.
C27_Witness ==
    /\ \E i \in 1..Len(siem) : /\ siem[i].action = "modified"
                               /\ siem[i].sensitivity = "critical"
                               /\ siem[i].token_id = 3
    /\ \E i \in 1..Len(siem) : /\ siem[i].action \in {"deleted", "opened"}
                               /\ siem[i].sensitivity = "critical"

IsStructural(e) == e.action # "opened"

StructuralAlerts == SelectSeq(siem, IsStructural)

\* What the two daemons share: everything but the access watcher's
\* thread and its watches.
SharedButThreads ==
    <<clock, syncVars, storeVars, token_map, watched_dirs, obs_sched, coalVars, histVars>>

\* The one step of the observer thread and the one of the main thread
\* that ask whether there is an access watcher.
ObserverAddsDir == obs.pc = "moved_open" /\ obs' # obs

MainAddsDir == main.pc = "refresh_open" /\ main' # main

\* A step of the access watcher's thread.
WatcherStep == opn' # opn

\* C28: without inotify the daemon has no access watcher, records no
\* 'opened' alert and keeps no access watches; and the two daemons take
\* the same steps on what they share.  The only steps that look at
\* open_watcher are the tails of _ensure_watch_dir_for, which in both
\* daemons end the call and change nothing shared (with a watcher they
\* add the access watch, and never wait); every other change of the
\* access watcher's state is a step of its own thread, which happens only
\* on an open and leaves the registry, the bursts, the structural watches,
\* the structural debounce times and the structural alerts alone.
C28_SameWithoutInotify ==
    /\ [](~HasWatcher => /\ opn = NoWatcher
                         /\ dir_to_wd = {}
                         /\ StructuralAlerts = siem
                         /\ \A i \in 1..Len(db_events) :
                                db_events[i].event_type # "opened"
                         /\ \A h \in 1..Len(hist) : hist[h].kind # OpenedKind)
    /\ []((obs.pc = "moved_open" \/ main.pc = "refresh_open") => LockFree("open"))
    /\ [][ /\ ObserverAddsDir => /\ obs' = Idle
                                 /\ UNCHANGED <<SharedButThreads, main, opn>>
                                 /\ ~HasWatcher => UNCHANGED dir_to_wd
           /\ MainAddsDir => /\ main' = [main EXCEPT !.pc = "refresh_watch",
                                                     !.added = Tail(@)]
                             /\ UNCHANGED <<SharedButThreads, obs, opn>>
                             /\ ~HasWatcher => UNCHANGED dir_to_wd
           /\ dir_to_wd' # dir_to_wd => ObserverAddsDir \/ MainAddsDir
           /\ WatcherStep =>
                 /\ HasWatcher
                 /\ UNCHANGED <<clock, syncVars, token_map, watchVars, mod_bursts,
                                main, obs>>
                 /\ StructuralAlerts' = StructuralAlerts
                 /\ \A k \in Ids \X (DebouncedTypes \ {OpenedKind}) :
                        last_seen'[k] = last_seen[k] ]_vars

\* Without the access watcher a rename into /b was recorded and /b is
\* watched by the observer, a decoy planted in /b was taken in by a
\* refresh, and a burst was flushed.
C28_Witness ==
    /\ ~HasWatcher
    /\ "/b" \in watched_dirs
    /\ obs_sched["/b"] = 1
    /\ \E i \in 1..Len(siem) : siem[i].action = "renamed"
    /\ main.last_refresh > 0

\* The swap of a refresh, the step under self._map_lock.
SwapStep == main.pc = "refresh_swap" /\ main' # main

\* on_moved has stored the new path of token t and moved its entry.
Renamed(t) ==
    /\ db_tokens[t].live
    /\ db_tokens[t].path # InitTokens[t].path
    /\ token_map[db_tokens[t].path] # NoTok
    /\ token_map[db_tokens[t].path].id = t
    /\ token_map[InitTokens[t].path] = NoTok

\* C29: the swap of a refresh that loaded the token list before a rename
\* stored the new path does not undo the rename: once on_moved has moved
\* the entry, the registry keeps the destination (not the source) for the
\* token.
C29_SwapKeepsRename ==
    [][\A t \in {1, 2} :
          SwapStep /\ Renamed(t) =>
              /\ token_map'[db_tokens[t].path] = token_map[db_tokens[t].path]
              /\ token_map'[InitTokens[t].path] = NoTok]_vars

\* A step of the rename of a tracked decoy, from the UPDATE of its stored
\* path to the end of the second section under _map_lock.
SelfRenameStep == obs.pc \in {"moved_store", "moved_map", "moved_set"} /\ obs' # obs

OnePathEach(tokens) ==
    \A i, j \in Ids :
        tokens[i].live /\ tokens[j].live /\ tokens[i].path = tokens[j].path => i = j

\* C30: the rename of a tracked decoy neither removes nor overwrites the
\* registry entry of another decoy, never leaves the store with two decoys
\* on one path, and goes on to its next statement: no statement of it
\* ends the callback with an error, also when the destination is the
\* path of another decoy.
C30_RenameSparesOtherDecoys ==
    [][SelfRenameStep =>
          /\ \A p \in Paths :
                 token_map[p] # NoTok /\ token_map[p].id # obs.tok =>
                     token_map'[p] = token_map[p]
          /\ \A t \in Ids \ {obs.tok} : db_tokens'[t] = db_tokens[t]
          /\ OnePathEach(db_tokens')
          /\ obs'.pc \in {"moved_map", "moved_set", "moved_watch"}]_vars

LocksOf(thread) == {l \in Locks : locks[l] = thread}

\* The places where a thread is inside a `with` statement that spans more
\* than one step: on_moved between its two statements under _map_lock,
\* and _ensure_watch_dir_for between the test and the schedule.
HeldWhere ==
    /\ locks["map"] \in {"none", "obs"}
    /\ locks["map"] = "obs" => obs.pc = "moved_set"
    /\ locks["watch"] = "obs" => obs.pc = "moved_sched"
    /\ locks["watch"] = "main" => main.pc = "refresh_sched"
    /\ locks["burst"] = "none"
    /\ locks["open"] = "none"
    /\ \A l \in Locks : locks[l] # "opn"

\* A thread that holds a lock has a step it can take.
HolderGoesOn ==
    /\ locks["map"] = "obs" => ENABLED moved_set
    /\ locks["watch"] = "obs" => ENABLED moved_sched
    /\ locks["watch"] = "main" => ENABLED refresh_sched

\* C31: no thread holds two of the four locks at once; a lock is taken by
\* a thread that holds none, the map lock is not held where a watch is
\* created, and a thread that holds a lock never waits for another, so the
\* threads cannot deadlock on the locks.
C31_OneLockAtATime ==
    /\ [](\A th \in Threads : Cardinality(LocksOf(th)) <= 1)
    /\ [](HeldWhere /\ HolderGoesOn)
    /\ [][\A th \in Threads, l \in Locks :
             locks'[l] = th /\ locks[l] # th => LocksOf(th) = {}]_vars

\* The observer thread is inside on_moved's section under _map_lock while
\* the main thread has loaded the token list and wants the lock for the
\* swap.
C31_Witness ==
    /\ locks["map"] = "obs"
    /\ obs.pc = "moved_set"
    /\ main.pc = "refresh_swap"
    /\ HasWatcher

AlertKinds == {"modified", "deleted", "renamed", "opened"}

\* A step of the daemon (not of the console) that inserts an event row.
DaemonInsert == admin' = admin /\ Len(db_events') = Len(db_events) + 1

\* A create notification has been classified as a hit.
CreatedHit ==
    /\ Len(hist') = Len(hist) + 1
    /\ hist'[Len(hist')].kind = "created"

\* flush_modified_bursts records the first burst of its list.
FlushRecords == main.pc = "flush_emit" /\ main.to_flush # <<>> /\ main' # main

\* C32: every record of the alert stream and every event row the daemon
\* inserts has kind modified, deleted, renamed or opened, never 'created'
\* or 'note'; a create notification of a tracked path records nothing by
\* itself and goes to the burst buffer like a modification; the flush
\* records the burst as 'modified' and so sets the status 'triggered'.
C32_OnlyFourKinds ==
    /\ [](\A i \in 1..Len(siem) : siem[i].action \in AlertKinds)
    /\ [][DaemonInsert => db_events'[Len(db_events')].event_type \in AlertKinds]_vars
    /\ [][CreatedHit =>
             /\ obs'.pc = "buffer"
             /\ UNCHANGED <<siem, db_events, db_tokens, coalVars>>]_vars
    /\ [][obs.pc = "buffer" /\ obs.kind = "created" /\ obs' # obs =>
             /\ mod_bursts' = buffer_store(mod_bursts, obs.tok, obs.sens, obs.path,
                                           obs.now)
             /\ UNCHANGED <<siem, db_events, db_tokens>>]_vars
    /\ [][FlushRecords =>
             /\ Len(siem') = Len(siem) + 1
             /\ siem'[Len(siem')].action = "modified"
             /\ db_events'[Len(db_events')].event_type = "modified"
             /\ LET t == Head(main.to_flush).tok IN
                db_tokens[t].live => db_tokens'[t].status = "triggered"]_vars

\* The decoy was created anew and never written; its burst was flushed as
\* a 'modified' alert and the console's reset left a 'note' row.
C32_Witness ==
    /\ \E i \in 1..Len(siem) : siem[i].action = "modified" /\ siem[i].token_id = 1
    /\ \A h \in 1..Len(hist) : hist[h].kind \in {"created", "opened"}
    /\ \E h \in 1..Len(hist) : hist[h].kind = "created"
    /\ \E i \in 1..Len(db_events) : db_events[i].event_type = "note"

\* A hit of a debounced kind has been classified in this step.
DebouncedHit ==
    /\ Len(hist') = Len(hist) + 1
    /\ hist'[Len(hist')].kind \in DebouncedTypes

\* The hits of a pair that were let through, in order.
PassedOfPair(t, k) ==
    SelectSeq(hist, LAMBDA h : h.tok = t /\ h.kind = k /\ h.passed)

\* C33: a suppressed hit leaves the debounce table as it is; whether a hit
\* is suppressed depends on the entry of its own (token, kind) pair only,
\* and a hit let through sets that entry and no other; the entry is the
\* time of the pair's last hit that was let through, so two consecutive
\* hits of a pair that are let through are a window or more apart, and a
\* hit a window or more after the last one let through is let through.
C33_WindowFromLastAlert ==
    /\ [][DebouncedHit =>
             LET h == hist'[Len(hist')]
                 key == <<h.tok, h.kind>>
             IN  /\ h.passed <=> h.t - last_seen[key] >= WindowOf(h.kind)
                 /\ ~h.passed => UNCHANGED last_seen
                 /\ h.passed => last_seen' = [last_seen EXCEPT ![key] = h.t]]_vars
    /\ [](\A t \in Ids, k \in DebouncedTypes :
             LET ps == PassedOfPair(t, k) IN
             /\ last_seen[<<t, k>>] = IF ps = <<>> THEN 0 ELSE ps[Len(ps)].t
             /\ \A i \in 1..(Len(ps) - 1) : ps[i + 1].t - ps[i].t >= WindowOf(k))

\* A deletion of one decoy was let through, within its window an open of
\* it or a deletion of the other decoy was let through as well, and a
\* second deletion of the first, later and still within the window, was
\* suppressed and left the entry at the time of the first.
C33_Witness ==
    /\ Len(hist) = 3
    /\ hist[1].kind = "deleted" /\ hist[1].passed
    /\ <<hist[2].tok, hist[2].kind>> # <<hist[1].tok, hist[1].kind>>
    /\ hist[2].passed
    /\ hist[2].t - hist[1].t < DEBOUNCE_WINDOW
    /\ hist[3].tok = hist[1].tok /\ hist[3].kind = "deleted" /\ ~hist[3].passed
    /\ hist[3].t > hist[2].t
    /\ last_seen[<<hist[1].tok, "deleted">>] = hist[1].t

\* The event row that belongs to a record of the alert stream.
RowOf(e) == EventRow(e.token_id, e.timestamp, e.action, e.level, e.details)

\* A call of write_event while the named statement fails.
WriteFailing(what) == fault = what /\ fault' = "none"

\* C34: write_event inserts the event row, then updates the token, then
\* appends to the alert stream, each only if the one before succeeded.  A
\* record is appended to the stream only together with its row and the
\* update; when the INSERT fails, the events, the tokens and the stream
\* stay as they are; when the UPDATE fails the row is there and nothing
\* else; when the append fails the row and the update are there.
C34_InsertUpdateEmit ==
    /\ [](\A i \in 1..Len(siem) :
             \E j \in 1..Len(db_events) : db_events[j] = RowOf(siem[i]))
    /\ [][siem' # siem =>
             LET e == siem'[Len(siem')] IN
             /\ siem' = Append(siem, e)
             /\ db_events' = Append(db_events, RowOf(e))
             /\ db_tokens' = UpdateStatus(db_tokens, e.token_id, e.action,
                                          e.timestamp)]_vars
    /\ [][WriteFailing("insert") => UNCHANGED <<db_events, db_tokens, siem>>]_vars
    /\ [][WriteFailing("update") =>
             /\ Len(db_events') = Len(db_events) + 1
             /\ UNCHANGED <<db_tokens, siem>>]_vars
    /\ [][WriteFailing("emit") =>
             LET r == db_events'[Len(db_events')] IN
             /\ Len(db_events') = Len(db_events) + 1
             /\ db_tokens' = UpdateStatus(db_tokens, r.token_id, r.event_type, r.ts)
             /\ UNCHANGED siem]_vars

\* An alert was recorded in the store and in the stream; a later open of
\* the decoy was let through and its INSERT failed: the access watcher's
\* thread is gone, and neither a row nor a record of the open exists.
C34_Witness ==
    /\ siem # <<>>
    /\ Len(db_events) = Len(siem)
    /\ opn.pc = "dead"
    /\ \E h \in 1..Len(hist) : hist[h].kind = "opened" /\ hist[h].passed
    /\ \A j \in 1..Len(db_events) : db_events[j].event_type # "opened"
    /\ fault = "none"

====
